---- MODULE Spec2Model ----
(***************************************************************************)
(* Model of the slime_core handler engine: the handler tree (BiList of     *)
(* children with parent back-references), wrapper chains driven through    *)
(* ContextManagerStack / ContextGenerator, the rank gate, and the control  *)
(* signal handling of CoreHandler.__call__ and CoreHandlerContainer.       *)
(*                                                                         *)
(* One run of node.__call__(ctx) is synchronous and single threaded, so    *)
(* it is one action (Call); what it did is recorded in the event log       *)
(* `trace` and its outcome in `result`.                                    *)
(***************************************************************************)
EXTENDS Integers, Sequences, FiniteSets, TLC

\* ---------------------------------------------------------------------------
\* Bounds of the model
\* ---------------------------------------------------------------------------

\* number of container objects (container 1 is the one created first)
NumContainers == 3

\* number of leaf handler objects
NumLeaves == 3

\* number of wrapper objects
NumWrappers == 3

\* the ranks of the launch environment are 0..MaxRank
MaxRank == 1

\* the size of a pipeline: its handlers and wrappers, plus the handle and
\* handle_yield bodies and the settings that differ from the default
MaxSize == 6

\* number of plugin objects
NumPlugins == 3

\* number of processes that have imported the handlers module
NumProcs == 2

\* number of threads of each process that create a handler
NumThreads == 2

\* number of BiList objects whose operations are followed one by one
NumBiLists == 2

\* number of BiListItem objects that are put into them
NumItems == 1

\* the children of all these BiLists together, counted with repetition
MaxChildren == 2

\* number of ids that are given to handlers by name
NumIds == 2

\* number of MutableBiListItem objects whose own operations are followed
NumNodes == 2

\* number of threads of one process that call a singleton class
NumCallers == 2

\* number of times each of them calls it
MaxCalls == 2

\* number of keys that items are registered with
NumKeys == 2

\* number of items that are registered
NumRegItems == 2

\* the longest key list that is passed to register_multi
MaxKeys == 2

\* number of attribute names of an object with scoped attributes
NumAttrs == 2

\* number of attribute values, besides NOTHING
NumValues == 1

\* number of attribute operations in the body of a scope
MaxBodySteps == 1

\* ---------------------------------------------------------------------------
\* Objects
\* ---------------------------------------------------------------------------

\* the NOTHING singleton, where an object reference is expected
NOTHING == 0

Containers == 1 .. NumContainers

Leaves == (NumContainers + 1) .. (NumContainers + NumLeaves)

WrapperIds == (NumContainers + NumLeaves + 1) .. (NumContainers + NumLeaves + NumWrappers)

Handlers == Containers \cup Leaves

Ranks == 0 .. MaxRank

Plugins == 1 .. NumPlugins

Procs == 1 .. NumProcs

\* the threads of process 1, then those of process 2, ...
Threads == 1 .. (NumProcs * NumThreads)

\* the threads of one process that call a singleton class
Callers == 1 .. NumCallers

RegKeys == 1 .. NumKeys

RegItems == 1 .. NumRegItems

\* the key lists that are passed to register_multi
KeyLists == UNION {[1 .. n -> RegKeys] : n \in 0 .. MaxKeys}

\* the strict argument of a registration: MISSING, True or False
StrictInputs == {"MISSING", "True", "False"}

Attrs == 1 .. NumAttrs

\* the values of attributes
Values == {NOTHING} \cup (1 .. NumValues)

\* the dicts with keys from S and values from V
Dicts(S, V) == UNION {[D -> V] : D \in SUBSET S}

\* d[k] = v
DictSet(d, k, v) == [x \in DOMAIN d \cup {k} |-> IF x = k THEN v ELSE d[x]]

\* del d[k]
DictDel(d, k) == [x \in DOMAIN d \ {k} |-> d[x]]

BiLists == 1 .. NumBiLists

BiListItems == (NumBiLists + 1) .. (NumBiLists + NumItems)

\* the items that are MutableBiListItem objects: a node and the nodes it is
\* replaced by or that are put next to it
Nodes == (NumBiLists + 1) .. (NumBiLists + NumNodes)

\* the id that set_id makes for a handler created without one:
\* f'handler_{n}' with n the value of the counter, one per handler
DefaultId(h) == <<"handler", h>>

\* the ids that are passed to set_id and get_by_id: names of the user, and
\* the string that set_id has made for the handler created first
IdInputs == {<<"id", k>> : k \in 1 .. NumIds} \cup {DefaultId(1)}

\* the classes that are passed to get_by_class: CoreHandler, its subclass
\* CoreHandlerContainer, and the class of the leaves, a subclass of
\* CoreHandler
ClassInputs == {"CoreHandler", "CoreHandlerContainer", "Leaf"}

\* the functions that are passed to get_by_filter:
\* lambda h: True, lambda h: not h.get_id().startswith('handler_') and
\* lambda h: len(list(h.composite_iterable__())) == 0
FilterInputs == {"any", "named", "childless"}

\* what a handle body may raise
Raisable == {"Error", "Continue", "Break", "Terminate"}

\* what a handle_yield body may raise
WrapperRaisable == {"Error", "Continue"}

VARIABLES
    list,          \* BaseList.__list of every container: its child sequence
    parent,        \* BiListItem.__parent of every handler
    wrappers,      \* CoreHandler.__wrappers: NOTHING or the wrapper chain
    exec_ranks,    \* CoreHandler.__exec_ranks
    id,            \* CoreHandler.__id
    handleBody,    \* what the handle override of a leaf does
    yieldBefore,   \* handle_yield of a wrapper: the code before its yield
    yieldAfter,    \* handle_yield of a wrapper: the code after its yield
    yieldExcept,   \* handle_yield of a wrapper: what it does with a thrown error
    rank,          \* the rank of the process (launch.get_rank)
    pc,            \* "build" while the tree is assembled, "done" after the run
                   \* ("yielded" after build_*_yield was driven by itself)
    called,        \* the node whose __call__ was run
    trace,         \* the events of the run, in order
    result,        \* the exception that left __call__, or NoExc
    op,            \* the last operation on a BiList or BiListItem, with what
                   \* it was given, what it logged and what it returned
    plugins,       \* BaseList.__list of the CorePluginContainer
    pluginBody,    \* build_*_yield of a plugin: the code before its yield
    buildBody,     \* what build_train / build_eval / build_predict does
    value,         \* Count.value, in the memory of every process
    t_lock,        \* Count.__t_lock of every process: the thread that holds it
    p_lock,        \* Count.__p_lock: the thread that holds it
    cpc,           \* where every thread is in Count.__get__
    local,         \* the local variable `value` of __get__ in every thread
    reads,         \* the values read from Count, in the order of the reads
    instance,      \* cls.__instance of a singleton class: None or the object
    meta_t_lock,   \* cls.__t_lock: the thread that holds it
    meta_p_lock,   \* cls.__p_lock: the thread that holds it
    spc,           \* where every thread is in _SingletonMetaclass.__call__
    calls,         \* the calls of the class that every thread has finished
    constructed,   \* the objects that super().__call__ has made, in order
    returned,      \* the objects that the calls of the class have returned
    registry,      \* a GeneralRegistry: its dict and its strict setting
    registered,    \* the last registration call, with what it was given, the
                   \* dict it found and what it raised
    obj,           \* an object with scoped attributes: its class and __dict__
    scope          \* the ScopedAttrRestore / ScopedAttrAssign object of the
                   \* with statement, and where the with statement is

vars == <<list, parent, wrappers, exec_ranks, id, handleBody, yieldBefore,
          yieldAfter, yieldExcept, rank, pc, called, trace, result,
          op, plugins, pluginBody, buildBody,
          value, t_lock, p_lock, cpc, local, reads,
          instance, meta_t_lock, meta_p_lock, spc, calls, constructed,
          returned, registry, registered, obj, scope>>

\* the state of a handler pipeline that only its own operations change
engineVars == <<wrappers, exec_ranks, id, handleBody, yieldBefore, yieldAfter,
                yieldExcept, rank, called>>

hookVars == <<plugins, pluginBody, buildBody>>

countVars == <<value, t_lock, p_lock, cpc, local, reads>>

singletonVars == <<instance, meta_t_lock, meta_p_lock, spc, calls, constructed,
                   returned>>

registryVars == <<registry, registered>>

scopedVars == <<obj, scope>>

utilVars == <<countVars, singletonVars, registryVars, scopedVars>>

\* what the operations on a handler pipeline leave alone
sideVars == <<op, hookVars, utilVars>>

treeVars == <<list, parent, wrappers, exec_ranks, id>>

bodyVars == <<handleBody, yieldBefore, yieldAfter, yieldExcept>>

runVars == <<pc, called, trace, result>>

\* ---------------------------------------------------------------------------
\* Exceptions
\* ---------------------------------------------------------------------------

\* no exception (a normal return)
NoExc == [type |-> "None", origin |-> NOTHING, cause |-> <<>>]

\* a fresh exception raised by user code in `phase` of object `who`
Raise(kind, phase, who) ==
    IF kind = "Error"
    THEN [type |-> "Error", origin |-> NOTHING, cause |-> <<"Error", phase, who>>]
    ELSE [type |-> kind, origin |-> NOTHING, cause |-> <<>>]

\* StopIteration raised by a generator that returns
StopIteration == [type |-> "StopIteration", origin |-> NOTHING, cause |-> <<"StopIteration">>]

\* RuntimeError raised by the interpreter or by contextlib
RuntimeError == [type |-> "RuntimeError", origin |-> NOTHING, cause |-> <<"RuntimeError">>]

\* HandlerException(exception_handler=h, exception=e)
HandlerException(h, e) ==
    [type |-> "HandlerException", origin |-> h, cause |-> e.cause]

\* HandlerWrapperException(exception_handler=w, exception=e)
HandlerWrapperException(w, e) ==
    [type |-> "HandlerWrapperException", origin |-> w, cause |-> e.cause]

\* isinstance(e, HandlerBaseException)
IsHandlerBaseException(e) ==
    e.type \in {"Continue", "Break", "Terminate", "HandlerException",
                "HandlerWrapperException"}

\* isinstance(e, HandlerException); HandlerWrapperException is a subclass
IsHandlerException(e) ==
    e.type \in {"HandlerException", "HandlerWrapperException"}

\* ---------------------------------------------------------------------------
\* Events of a run
\* ---------------------------------------------------------------------------

\* handle(ctx) of handler n was entered
EvHandle(n) ==
    [ev |-> "handle", who |-> n, of |-> NOTHING, path |-> "", exc |-> NoExc]

\* handle_yield of wrapper w around node n was started (before-phase)
EvBefore(w, n) ==
    [ev |-> "before", who |-> w, of |-> n, path |-> "", exc |-> NoExc]

\* handle_yield of wrapper w was resumed by next/send (after-phase, normal path)
EvAfter(w, n) ==
    [ev |-> "after", who |-> w, of |-> n, path |-> "normal", exc |-> NoExc]

\* handle_yield of wrapper w was resumed by throw(e) (after-phase, error path)
EvAfterErr(w, n, e) ==
    [ev |-> "after", who |-> w, of |-> n, path |-> "error", exc |-> e]

\* ---------------------------------------------------------------------------
\* handle_yield: the generator of a wrapper, as the three ways it is driven
\* ---------------------------------------------------------------------------

\* the first gen.send(None): runs the code before the yield
handle_yield_start(w, n, tr) ==
    LET t == Append(tr, EvBefore(w, n)) IN
    IF yieldBefore[w] = "yield"
    THEN [val |-> "None", exc |-> NoExc, same |-> FALSE, tr |-> t]
    ELSE IF yieldBefore[w] = "stop"
    THEN [val |-> "STOP", exc |-> NoExc, same |-> FALSE, tr |-> t]
    ELSE [val |-> "None", exc |-> Raise(yieldBefore[w], "before", w),
          same |-> FALSE, tr |-> t]

\* gen.send(None) at the yield: runs the code after the yield
handle_yield_next(w, n, tr) ==
    LET t == Append(tr, EvAfter(w, n)) IN
    IF yieldAfter[w] = "finish"
    THEN [val |-> "None", exc |-> StopIteration, same |-> FALSE, tr |-> t]
    ELSE IF yieldAfter[w] = "yield"
    THEN [val |-> "None", exc |-> NoExc, same |-> FALSE, tr |-> t]
    ELSE [val |-> "None", exc |-> Raise(yieldAfter[w], "after", w),
          same |-> FALSE, tr |-> t]

\* gen.throw(e) at the yield: e is raised at the yield expression.  `same`
\* tells that the exception leaving the generator is the object thrown in.
\* A StopIteration that leaves a generator body is replaced by RuntimeError.
handle_yield_throw(w, n, e, tr) ==
    LET t == Append(tr, EvAfterErr(w, n, e)) IN
    IF yieldExcept[w] = "reraise"
    THEN IF e.type = "StopIteration"
         THEN [val |-> "None", exc |-> RuntimeError, same |-> FALSE, tr |-> t]
         ELSE [val |-> "None", exc |-> e, same |-> TRUE, tr |-> t]
    ELSE IF yieldExcept[w] = "finish"
    THEN [val |-> "None", exc |-> StopIteration, same |-> FALSE, tr |-> t]
    ELSE IF yieldExcept[w] = "yield"
    THEN [val |-> "None", exc |-> NoExc, same |-> FALSE, tr |-> t]
    ELSE [val |-> "None", exc |-> Raise(yieldExcept[w], "after", w),
          same |-> FALSE, tr |-> t]

\* ---------------------------------------------------------------------------
\* BaseGenerator / HandlerWrapperGenerator / ContextGenerator
\* ---------------------------------------------------------------------------

\* BaseGenerator.call__(caller): r is what caller() does when it is invoked,
\* tr0 the log when it is not.  stop_allowed is True for gen__.
BaseGenerator_call__(stop, tr0, r) ==
    IF stop
    THEN [val |-> "PASS", exc |-> NoExc, stop |-> TRUE, tr |-> tr0]
    ELSE IF r.exc.type = "StopIteration"
    THEN [val |-> "None", exc |-> NoExc, stop |-> TRUE, tr |-> r.tr]
    ELSE [val |-> r.val, exc |-> r.exc, stop |-> FALSE, tr |-> r.tr]

\* the except clauses of HandlerWrapperGenerator.call__ on the outcome s of
\* super().call__: handler exceptions pass, any other exception becomes a
\* HandlerWrapperException of the wrapper
HandlerWrapperGenerator_except(w, s) ==
    IF s.exc = NoExc \/ IsHandlerBaseException(s.exc)
    THEN s
    ELSE [s EXCEPT !.exc = HandlerWrapperException(w, s.exc)]

\* HandlerWrapperGenerator.call__(caller)
HandlerWrapperGenerator_call__(w, stop, tr0, r) ==
    HandlerWrapperGenerator_except(w, BaseGenerator_call__(stop, tr0, r))

\* ContextGenerator.__enter__ of wrapper.gen__(ctx, n): self() is next(self),
\* which is self.send(None), which goes through call__
ContextGenerator__enter__(w, n, tr) ==
    HandlerWrapperGenerator_call__(w, FALSE, tr, handle_yield_start(w, n, tr))

\* ContextGenerator.__exit__ without an exception: self(), return False
ContextGenerator__exit__next(r) ==
    [suppress |-> FALSE, exc |-> r.exc, tr |-> r.tr]

\* a variant of __exit__ on the error path that also returns True when the
\* exception thrown in came back
ContextGenerator__exit__throwSuppress(r) ==
    IF r.exc = NoExc \/ r.same
    THEN [suppress |-> TRUE, exc |-> NoExc, tr |-> r.tr]
    ELSE [suppress |-> FALSE, exc |-> r.exc, tr |-> r.tr]

\* ContextGenerator.__exit__ with an exception, after self.gen.throw: True
\* when the generator took it, False when the same exception came back,
\* otherwise the new exception is raised
ContextGenerator__exit__throw(r) ==
    IF r.exc = NoExc
    THEN [suppress |-> TRUE, exc |-> NoExc, tr |-> r.tr]
    ELSE IF r.same
    THEN [suppress |-> FALSE, exc |-> NoExc, tr |-> r.tr]
    ELSE [suppress |-> FALSE, exc |-> r.exc, tr |-> r.tr]

\* ContextGenerator.__exit__ with exception e (NoExc: the three Nones).
\* suppress is the returned bool, exc the exception __exit__ itself raises.
\* The generator was entered once and is still at its yield: stop is False.
\* The normal path goes through call__, the error path calls gen.throw itself.
ContextGenerator__exit__(w, n, e, tr) ==
    IF e = NoExc
    THEN ContextGenerator__exit__next(
             HandlerWrapperGenerator_call__(w, FALSE, tr, handle_yield_next(w, n, tr)))
    ELSE ContextGenerator__exit__throw(handle_yield_throw(w, n, e, tr))

\* ---------------------------------------------------------------------------
\* ContextManagerStack
\* ---------------------------------------------------------------------------

RECURSIVE ExitStack__exit__(_, _, _, _, _, _, _)
RECURSIVE ExitStack__exit__step(_, _, _, _, _, _, _)

\* one callback of ExitStack.__exit__ has returned r: a callback that raises
\* replaces the exception in flight (pending_raise), one that returns True
\* clears it
ExitStack__exit__step(ws, n, i, e, pending, suppressed, r) ==
    IF r.exc # NoExc
    THEN ExitStack__exit__(ws, n, i - 1, r.exc, TRUE, suppressed, r.tr)
    ELSE IF r.suppress
    THEN ExitStack__exit__(ws, n, i - 1, NoExc, FALSE, TRUE, r.tr)
    ELSE ExitStack__exit__(ws, n, i - 1, e, pending, suppressed, r.tr)

\* a variant of ExitStack.__exit__ that calls the callbacks first pushed first
\* (a queue, as BaseGeneratorQueue does, in place of a stack)
ExitStack__exit__fifo(ws, n, i, e, pending, suppressed, tr) ==
    IF i = 0
    THEN [exc |-> e, pending |-> pending, suppressed |-> suppressed, tr |-> tr]
    ELSE ExitStack__exit__step(ws, n, i, e, pending, suppressed,
                               ContextGenerator__exit__(ws[Len(ws) + 1 - i], n, e, tr))

\* ExitStack.__exit__ of `with stack:`: the callbacks ws[i], ..., ws[1] are
\* called, last pushed first, with the exception in flight
ExitStack__exit__(ws, n, i, e, pending, suppressed, tr) ==
    IF i = 0
    THEN [exc |-> e, pending |-> pending, suppressed |-> suppressed, tr |-> tr]
    ELSE ExitStack__exit__step(ws, n, i, e, pending, suppressed,
                               ContextGenerator__exit__(ws[i], n, e, tr))

\* what leaves `with stack:` entered with exception e, r being the outcome of
\* ExitStack.__exit__: the pending exception, or e when it was not suppressed
WithStackResult(e, r) ==
    IF r.pending
    THEN [exc |-> r.exc, tr |-> r.tr]
    ELSE IF e # NoExc /\ ~r.suppressed
    THEN [exc |-> e, tr |-> r.tr]
    ELSE [exc |-> NoExc, tr |-> r.tr]

\* the statement `with stack:` is left with exception e (or NoExc) while
\* ws[1..opened] are on the stack
WithStack(ws, n, opened, e, tr) ==
    WithStackResult(e, ExitStack__exit__(ws, n, opened, e, FALSE, FALSE, tr))

RECURSIVE EnterContexts(_, _, _, _)
RECURSIVE EnterContextsStep(_, _, _, _)

\* a variant of the loop body without `if val is STOP: break`
EnterContextsStepNoBreak(ws, n, i, r) ==
    IF r.exc # NoExc
    THEN [opened |-> i - 1, val |-> "None", exc |-> r.exc, tr |-> r.tr]
    ELSE IF i = Len(ws)
    THEN [opened |-> i, val |-> r.val, exc |-> NoExc, tr |-> r.tr]
    ELSE EnterContexts(ws, n, i + 1, r.tr)

\* a variant of the loop body in which a context whose __enter__ raised is on
\* the stack all the same
EnterContextsStepPushed(ws, n, i, r) ==
    IF r.exc # NoExc
    THEN [opened |-> i, val |-> "None", exc |-> r.exc, tr |-> r.tr]
    ELSE IF r.val = "STOP"
    THEN [opened |-> i, val |-> "STOP", exc |-> NoExc, tr |-> r.tr]
    ELSE EnterContexts(ws, n, i + 1, r.tr)

\* stack.enter_context(ws[i]) has returned r: the loop ends when it raised or
\* when the value is STOP
EnterContextsStep(ws, n, i, r) ==
    IF r.exc # NoExc
    THEN [opened |-> i - 1, val |-> "None", exc |-> r.exc, tr |-> r.tr]
    ELSE IF r.val = "STOP"
    THEN [opened |-> i, val |-> "STOP", exc |-> NoExc, tr |-> r.tr]
    ELSE EnterContexts(ws, n, i + 1, r.tr)

\* the loop of ContextManagerStack: enter ws[i], ws[i+1], ...; val is
\* vals[-1], or True for no values
EnterContexts(ws, n, i, tr) ==
    IF i > Len(ws)
    THEN [opened |-> Len(ws), val |-> IF Len(ws) > 0 THEN "None" ELSE "True",
          exc |-> NoExc, tr |-> tr]
    ELSE EnterContextsStep(ws, n, i, ContextGenerator__enter__(ws[i], n, tr))

\* a StopIteration that leaves the body of a generator function is replaced
\* by RuntimeError
GeneratorRaises(x) ==
    [exc |-> IF x.exc.type = "StopIteration" THEN RuntimeError ELSE x.exc,
     tr |-> x.tr]

\* the generator of ContextManagerStack ended before its yield because the
\* stack swallowed the exception of enter_context: contextlib raises
\* RuntimeError; otherwise the exception leaves the generator
GeneratorDidNotYield(x) ==
    [opened |-> 0, val |-> "None",
     exc |-> IF x.exc = NoExc THEN RuntimeError ELSE GeneratorRaises(x).exc,
     tr |-> x.tr]

\* a variant of ContextManagerStack whose loop is outside `with stack:`: an
\* exception of enter_context leaves the generator with the stack not closed
ContextManagerStack__yieldUnprotected(ws, n, r) ==
    IF r.exc = NoExc
    THEN r
    ELSE [opened |-> 0, val |-> "None", exc |-> r.exc, tr |-> r.tr]

\* the generator of ContextManagerStack after its loop: it yields the values,
\* or the exception of enter_context leaves `with stack:`
ContextManagerStack__yield(ws, n, r) ==
    IF r.exc = NoExc
    THEN r
    ELSE GeneratorDidNotYield(WithStack(ws, n, r.opened, r.exc, r.tr))

\* __enter__ of the context manager ContextManagerStack(...): runs the
\* generator function up to its yield
ContextManagerStack__enter__(ws, n, tr) ==
    ContextManagerStack__yield(ws, n, EnterContexts(ws, n, 1, tr))

\* __exit__ of the context manager: the generator is resumed (next) or the
\* exception e of the body is thrown into it at `yield tuple(vals)`, which is
\* inside `with stack:`.  exc is what leaves the with statement of the caller.
ContextManagerStack__exit__(ws, n, opened, e, tr) ==
    GeneratorRaises(WithStack(ws, n, opened, e, tr))

\* ---------------------------------------------------------------------------
\* The rank gate (CoreLaunchUtil)
\* ---------------------------------------------------------------------------

\* exec_ranks values: the PASS flag, NOTHING / None, or a list of ranks
ExecRanksPASS == [kind |-> "PASS", ranks |-> {}]

ExecRanksNOTHING == [kind |-> "NOTHING", ranks |-> {}]

ExecRanksList(rs) == [kind |-> "LIST", ranks |-> rs]

\* launch.is_exec(exec_ranks): is the current rank matched in exec_ranks
is_exec(er) ==
    IF er.kind = "PASS" THEN TRUE
    ELSE IF er.kind = "NOTHING" THEN FALSE
    ELSE rank \in er.ranks

\* ---------------------------------------------------------------------------
\* CoreHandler / CoreHandlerContainer / CoreHandlerWrapperContainer
\* ---------------------------------------------------------------------------

RECURSIVE Invoke(_, _)
RECURSIVE ForHandlerInSelf(_, _, _)
RECURSIVE ForHandlerInSelfStep(_, _, _)
RECURSIVE CoreHandlerContainer_handle(_, _)
RECURSIVE Handle(_, _)
RECURSIVE CoreHandlerWrapperContainer_body(_, _, _)
RECURSIVE CoreHandlerWrapperContainer_handle(_, _, _)
RECURSIVE LaunchCall(_, _)
RECURSIVE CoreHandler__call__(_, _)
RECURSIVE CoreHandlerContainer__call__(_, _)

\* a variant of the loop that catches what handler(ctx) raises and goes on
\* with the next child
ForHandlerInSelfStepOn(c, i, r) ==
    ForHandlerInSelf(c, i + 1, r.tr)

\* handler(ctx) of the loop has returned r: an exception ends the loop
ForHandlerInSelfStep(c, i, r) ==
    IF r.exc # NoExc
    THEN r
    ELSE ForHandlerInSelf(c, i + 1, r.tr)

\* `for handler in self: handler(ctx)` from child i on
ForHandlerInSelf(c, i, tr) ==
    IF i > Len(list[c])
    THEN [exc |-> NoExc, tr |-> tr]
    ELSE ForHandlerInSelfStep(c, i, Invoke(list[c][i], tr))

\* a variant of CoreHandlerContainer.handle without the except clause
NoExceptHandlerContinue(r) == r

\* `except HandlerContinue: pass` of CoreHandlerContainer.handle
ExceptHandlerContinue(r) ==
    IF r.exc.type = "Continue"
    THEN [exc |-> NoExc, tr |-> r.tr]
    ELSE r

\* CoreHandlerContainer.handle: run the children, swallow HandlerContinue
CoreHandlerContainer_handle(c, tr) ==
    ExceptHandlerContinue(ForHandlerInSelf(c, 1, Append(tr, EvHandle(c))))

\* handle of a leaf: the override of the abstract CoreHandler.handle
LeafHandle(h, tr) ==
    [exc |-> IF handleBody[h] = "ok" THEN NoExc
             ELSE Raise(handleBody[h], "handle", h),
     tr |-> Append(tr, EvHandle(h))]

\* self.handle(ctx) / wrapped.handle(ctx)
Handle(h, tr) ==
    IF h \in Containers
    THEN CoreHandlerContainer_handle(h, tr)
    ELSE LeafHandle(h, tr)

\* the outcome of the body of the with statement becomes the argument of
\* __exit__
CoreHandlerWrapperContainer_exit(ws, wrapped, opened, body) ==
    ContextManagerStack__exit__(ws, wrapped, opened, body.exc, body.tr)

\* the with statement of CoreHandlerWrapperContainer.handle after __enter__
\* returned en: the body calls wrapped.handle(ctx) unless the last value is
\* STOP
CoreHandlerWrapperContainer_body(ws, wrapped, en) ==
    IF en.exc # NoExc
    THEN [exc |-> en.exc, tr |-> en.tr]
    ELSE CoreHandlerWrapperContainer_exit(ws, wrapped, en.opened,
             IF en.val # "STOP"
             THEN Handle(wrapped, en.tr)
             ELSE [exc |-> NoExc, tr |-> en.tr])

\* CoreHandlerWrapperContainer.handle(ctx, wrapped): the chain of wrapped
\* around wrapped.handle(ctx)
CoreHandlerWrapperContainer_handle(ws, wrapped, tr) ==
    CoreHandlerWrapperContainer_body(ws, wrapped,
                                     ContextManagerStack__enter__(ws, wrapped, tr))

\* a variant of __call__ that passes only the bare handle through launch.call
\* and runs a wrapper chain whatever the rank
LaunchCallChainUngated(h, tr) ==
    IF wrappers[h].nothing
    THEN IF is_exec(exec_ranks[h])
         THEN Handle(h, tr)
         ELSE [exc |-> NoExc, tr |-> tr]
    ELSE CoreHandlerWrapperContainer_handle(wrappers[h].list, h, tr)

\* launch.call(caller, exec_ranks=...) with caller the handle of h or the
\* handle of its wrapper chain: the caller runs when the rank is matched
LaunchCall(h, tr) ==
    IF is_exec(exec_ranks[h])
    THEN IF wrappers[h].nothing
         THEN Handle(h, tr)
         ELSE CoreHandlerWrapperContainer_handle(wrappers[h].list, h, tr)
    ELSE [exc |-> NoExc, tr |-> tr]

\* a variant of the except clauses without the last one: an exception that
\* is no handler exception leaves __call__ as it is
CoreHandler__call__exceptRaw(h, r) ==
    IF r.exc = NoExc
    THEN r
    ELSE IF r.exc.type = "Terminate"
    THEN [exc |-> IF r.exc.origin = NOTHING
                  THEN [r.exc EXCEPT !.origin = h]
                  ELSE r.exc,
          tr |-> r.tr]
    ELSE IF r.exc.type = "HandlerWrapperException"
    THEN [exc |-> HandlerException(h, r.exc), tr |-> r.tr]
    ELSE r

\* a variant of the except clauses in which every node that HandlerTerminate
\* passes sets raise_handler to itself
CoreHandler__call__exceptRestamp(h, r) ==
    IF r.exc = NoExc
    THEN r
    ELSE IF r.exc.type = "Terminate"
    THEN [exc |-> [r.exc EXCEPT !.origin = h], tr |-> r.tr]
    ELSE IF r.exc.type \in {"Break", "Continue"}
    THEN r
    ELSE [exc |-> HandlerException(h, r.exc), tr |-> r.tr]

\* a variant without `except HandlerException: raise`: the HandlerException
\* of an inner node falls to `except Exception` and is wrapped again
CoreHandler__call__exceptRewrap(h, r) ==
    IF r.exc = NoExc
    THEN r
    ELSE IF r.exc.type = "Terminate"
    THEN [exc |-> IF r.exc.origin = NOTHING
                  THEN [r.exc EXCEPT !.origin = h]
                  ELSE r.exc,
          tr |-> r.tr]
    ELSE IF r.exc.type \in {"Break", "Continue"}
    THEN r
    ELSE [exc |-> HandlerException(h, r.exc), tr |-> r.tr]

\* a variant with `except HandlerException: raise` in front of
\* `except HandlerWrapperException`: the subclass is caught by the first clause
CoreHandler__call__exceptOrder(h, r) ==
    IF r.exc = NoExc
    THEN r
    ELSE IF r.exc.type = "Terminate"
    THEN [exc |-> IF r.exc.origin = NOTHING
                  THEN [r.exc EXCEPT !.origin = h]
                  ELSE r.exc,
          tr |-> r.tr]
    ELSE IF r.exc.type \in {"Break", "Continue"}
    THEN r
    ELSE IF IsHandlerException(r.exc)
    THEN r
    ELSE [exc |-> HandlerException(h, r.exc), tr |-> r.tr]

\* the except clauses of CoreHandler.__call__, in their order
CoreHandler__call__except(h, r) ==
    IF r.exc = NoExc
    THEN r
    ELSE IF r.exc.type = "Terminate"
    THEN [exc |-> IF r.exc.origin = NOTHING
                  THEN [r.exc EXCEPT !.origin = h]
                  ELSE r.exc,
          tr |-> r.tr]
    ELSE IF r.exc.type \in {"Break", "Continue"}
    THEN r
    ELSE IF r.exc.type = "HandlerWrapperException"
    THEN [exc |-> HandlerException(h, r.exc), tr |-> r.tr]
    ELSE IF r.exc.type = "HandlerException"
    THEN r
    ELSE [exc |-> HandlerException(h, r.exc), tr |-> r.tr]

\* CoreHandler.__call__
CoreHandler__call__(h, tr) ==
    CoreHandler__call__except(h, LaunchCall(h, tr))

\* a variant of CoreHandlerContainer.__call__ without the except clause
NoExceptHandlerBreak(r) == r

\* `except HandlerBreak: pass` of CoreHandlerContainer.__call__
ExceptHandlerBreak(r) ==
    IF r.exc.type = "Break"
    THEN [exc |-> NoExc, tr |-> r.tr]
    ELSE r

\* a variant of CoreHandlerContainer.__call__ that swallows HandlerBreak
\* only when the container has no parent
CoreHandlerContainer__call__rootOnly(c, tr) ==
    IF parent[c] = NOTHING
    THEN ExceptHandlerBreak(CoreHandler__call__(c, tr))
    ELSE CoreHandler__call__(c, tr)

\* a variant of CoreHandlerContainer.__call__ that swallows HandlerContinue
\* too, also the one of the wrappers of the container
CoreHandlerContainer__call__absorbing(c, tr) ==
    ExceptHandlerContinue(ExceptHandlerBreak(CoreHandler__call__(c, tr)))

\* CoreHandlerContainer.__call__: CoreHandler.__call__, swallow HandlerBreak
CoreHandlerContainer__call__(c, tr) ==
    ExceptHandlerBreak(CoreHandler__call__(c, tr))

\* a variant in which CoreHandlerContainer does not override __call__
InvokeCoreHandler(h, tr) == CoreHandler__call__(h, tr)

\* handler(ctx): __call__ of the class of the handler
Invoke(h, tr) ==
    IF h \in Containers
    THEN CoreHandlerContainer__call__(h, tr)
    ELSE CoreHandler__call__(h, tr)

\* ---------------------------------------------------------------------------
\* BiList: child sequences and parent references
\* ---------------------------------------------------------------------------

\* the CoreHandlerWrapperContainer object that set_wrappers creates for h
WrapperContainerOf(h) == 0 - h

\* list.insert(index, x) for an index in 0..len (a larger index appends)
ListInsert(s, index, x) ==
    LET i == IF index > Len(s) THEN Len(s) ELSE index IN
    SubSeq(s, 1, i) \o <<x>> \o SubSeq(s, i + 1, Len(s))

\* BiListItem.set_parent__: the parent reference after item.set_parent__(p)
set_parent__(par, item, p) == [par EXCEPT ![item] = p]

\* handlers that are part of the tree under container 1
InTree(h) == h = 1 \/ parent[h] # NOTHING

RECURSIVE OnSpine(_)
\* c is container 1 or the last child of a container on the spine: the
\* containers that a construction of the tree in preorder can still extend
OnSpine(c) ==
    \/ c = 1
    \/ /\ parent[c] # NOTHING
       /\ list[parent[c]][Len(list[parent[c]])] = c
       /\ OnSpine(parent[c])

\* objects of a kind are interchangeable until they are used: the next one
\* taken is the one with the smallest number
Unused(S) == {x \in S : x # 1 /\ parent[x] = NOTHING}

NextUnused(S) == CHOOSE x \in Unused(S) : \A y \in Unused(S) : x <= y

RECURSIVE TakeUnused(_, _)
\* the k unused wrappers with the smallest numbers, in increasing order
TakeUnused(S, k) ==
    IF k = 0 THEN <<>>
    ELSE LET x == CHOOSE y \in S : \A z \in S : y <= z
         IN <<x>> \o TakeUnused(S \ {x}, k - 1)

\* ---------------------------------------------------------------------------
\* Tree search
\* ---------------------------------------------------------------------------

\* a variant in which the wrappers of a node are searched after its children
composite_iterable__withWrappers(h) ==
    (IF h \in Containers THEN list[h] ELSE <<>>)
        \o (IF h \in Handlers THEN wrappers[h].list ELSE <<>>)

\* composite_iterable__: the children of a container, NOTHING (which
\* iterates as empty) for any other handler
composite_iterable__(h) == IF h \in Containers THEN list[h] ELSE <<>>

RECURSIVE CompositeDFT(_, _)
\* CompositeDFT: stack holds the iterators (what each has left to give), the
\* last one is advanced; an exhausted iterator is popped, otherwise __func is
\* called on the node and the iterator of its children is pushed.  The
\* result is the sequence of the nodes __func was called on.
CompositeDFT(stack, visited) ==
    IF Len(stack) = 0
    THEN visited
    ELSE IF stack[Len(stack)] = <<>>
    THEN CompositeDFT(SubSeq(stack, 1, Len(stack) - 1), visited)
    ELSE CompositeDFT(
             Append([stack EXCEPT ![Len(stack)] = Tail(stack[Len(stack)])],
                    composite_iterable__(Head(stack[Len(stack)]))),
             Append(visited, Head(stack[Len(stack)])))

\* a variant of the search that gives the results in the reverse order
CompositeDFSReversed(item, func) ==
    LET r == SelectSeq(CompositeDFT(<<(<<item>>)>>, <<>>), LAMBDA n : n \in func)
    IN [k \in DOMAIN r |-> r[Len(r) + 1 - k]]

\* CompositeDFS(item, func): the visited nodes on which func is true, in the
\* order of the visits; func is given as the set of the nodes on which it
\* returns true
CompositeDFS(item, func) ==
    SelectSeq(CompositeDFT(<<(<<item>>)>>, <<>>), LAMBDA n : n \in func)

\* isinstance(n, cls): the wrappers are CoreHandlerWrapper objects, a subclass
\* of CoreHandlerContainer
InstancesOf(cls) ==
    IF cls = "CoreHandler" THEN Handlers \cup WrapperIds
    ELSE IF cls = "CoreHandlerContainer" THEN Containers \cup WrapperIds
    ELSE Leaves

\* the nodes on which the function f of FilterInputs returns true
FilterTrue(f) ==
    IF f = "any" THEN Handlers \cup WrapperIds
    ELSE IF f = "named" THEN {n \in Handlers : id[n] # DefaultId(n)}
    ELSE {n \in Handlers \cup WrapperIds : composite_iterable__(n) = <<>>}

\* CoreHandler.get_by_class(cls) on handler h
CoreHandler_get_by_class(h, cls) == CompositeDFS(h, InstancesOf(cls))

\* CoreHandler.get_by_filter(func) on handler h
CoreHandler_get_by_filter(h, func) == CompositeDFS(h, func)

\* a variant of get_by_id that returns the result found last
get_by_id_resultsLast(results) ==
    [warned |-> IF Len(results) > 1 THEN 1 ELSE 0,
     ret |-> IF Len(results) < 1 THEN NOTHING ELSE results[Len(results)]]

\* what get_by_id makes of the results of the search: a warning for more
\* than one result, NOTHING for none, otherwise the first
get_by_id_results(results) ==
    [warned |-> IF Len(results) > 1 THEN 1 ELSE 0,
     ret |-> IF Len(results) < 1 THEN NOTHING ELSE results[1]]

\* CoreHandler.get_by_id(i) on handler h
CoreHandler_get_by_id(h, i) ==
    get_by_id_results(CompositeDFS(h, {n \in Handlers : id[n] = i}))

\* ---------------------------------------------------------------------------
\* BiList and BiListItem: the operations one by one
\* ---------------------------------------------------------------------------

\* the objects an operation works on: the child sequences, the parent
\* references, the number of warnings the operation has logged so far, and
\* whether it has raised
BiState(l, par) == [list |-> l, parent |-> par, warned |-> 0, raised |-> FALSE]

\* BiListItem.get_parent__
BiListItem_get_parent__(s, x) == s.parent[x]

\* BiListItem.set_parent__(c): warns when another parent was set before
BiListItem_set_parent__(s, x, c) ==
    [list |-> s.list,
     parent |-> set_parent__(s.parent, x, c),
     warned |-> IF s.parent[x] # NOTHING /\ s.parent[x] # c
                THEN s.warned + 1
                ELSE s.warned,
     raised |-> s.raised]

\* BiListItem.del_parent__
BiListItem_del_parent__(s, x) ==
    [s EXCEPT !.parent = set_parent__(s.parent, x, NOTHING)]

RECURSIVE DelParents(_, _, _)
\* for item in L: item.del_parent__()
DelParents(s, L, i) ==
    IF i > Len(L) THEN s
    ELSE DelParents(BiListItem_del_parent__(s, L[i]), L, i + 1)

RECURSIVE SetParents(_, _, _, _)
\* for item in L: item.set_parent__(c)
SetParents(s, L, c, i) ==
    IF i > Len(L) THEN s
    ELSE SetParents(BiListItem_set_parent__(s, L[i], c), L, c, i + 1)

\* list[a:b] = L on a Python list q, for 0 <= a <= b <= len(q)
SliceAssign(q, a, b, L) == SubSeq(q, 1, a) \o L \o SubSeq(q, b + 1, Len(q))

\* q[a:b]
Slice(q, a, b) == SubSeq(q, a + 1, b)

\* a variant of insert that takes the item out of the BiList it was in
BiList_insertMoving(s, c, index, x) ==
    [list |-> [d \in DOMAIN s.list |->
                  IF d = c THEN ListInsert(s.list[c], index, x)
                  ELSE IF d = s.parent[x]
                  THEN SelectSeq(s.list[d], LAMBDA y : y # x)
                  ELSE s.list[d]],
     parent |-> set_parent__(s.parent, x, c),
     warned |-> IF s.parent[x] # NOTHING /\ s.parent[x] # c
                THEN s.warned + 1
                ELSE s.warned,
     raised |-> s.raised]

\* a variant: the item is put in without its parent being set
BiList_insertUnparented(s, c, index, x) ==
    [s EXCEPT !.list[c] = ListInsert(s.list[c], index, x)]

\* BiList.insert(index, x): set_parent__, then BaseList.insert
BiList_insert(s, c, index, x) ==
    [BiListItem_set_parent__(s, x, c)
        EXCEPT !.list[c] = ListInsert(s.list[c], index, x)]

\* MutableSequence.append(x): self.insert(len(self), x)
MutableSequence_append(s, c, x) == BiList_insert(s, c, Len(s.list[c]), x)

RECURSIVE MutableSequence_extend(_, _, _, _)
\* MutableSequence.extend(L): for v in L: self.append(v)
MutableSequence_extend(s, c, L, i) ==
    IF i > Len(L) THEN s
    ELSE MutableSequence_extend(MutableSequence_append(s, c, L[i]), c, L, i + 1)

\* BaseList.__init__(L) of a new BiList c: an empty list, then self.extend(L)
BaseList__init__(s, c, L) ==
    MutableSequence_extend([s EXCEPT !.list[c] = <<>>], c, L, 1)

\* BiList.__setitem__(index, x): del_parent__ of the replaced item,
\* set_parent__ of x, then BaseList.__setitem__
BiList__setitem__(s, c, index, x) ==
    [BiListItem_set_parent__(BiListItem_del_parent__(s, s.list[c][index + 1]), x, c)
        EXCEPT !.list[c] = SliceAssign(s.list[c], index, index + 1, <<x>>)]

\* BiList.__setitem__(slice(a, b), L)
BiList__setitem__slice(s, c, a, b, L) ==
    [SetParents(DelParents(s, Slice(s.list[c], a, b), 1), L, c, 1)
        EXCEPT !.list[c] = SliceAssign(s.list[c], a, b, L)]

\* BiList.__setitem__(slice(a, b), it) with it an iterator over L, which can
\* be gone through once: the loop `for item in __value` uses it up, and
\* BaseList.__setitem__ is handed what is left of it, nothing
BiList__setitem__iter(s, c, a, b, L) ==
    [SetParents(DelParents(s, Slice(s.list[c], a, b), 1), L, c, 1)
        EXCEPT !.list[c] = SliceAssign(s.list[c], a, b, <<>>)]

\* BaseList.__delitem__(index): del self.__list[index]
BaseList__delitem__(s, c, index) ==
    [s EXCEPT !.list[c] = SliceAssign(s.list[c], index, index + 1, <<>>)]

\* a variant of BiList.__delitem__ that leaves the parent of the item alone
BiList__delitem__keepParent(s, c, index) == BaseList__delitem__(s, c, index)

\* BiList.__delitem__(index): del_parent__, then BaseList.__delitem__
BiList__delitem__(s, c, index) ==
    BaseList__delitem__(BiListItem_del_parent__(s, s.list[c][index + 1]), c, index)

\* BiList.__delitem__(slice(a, b))
BiList__delitem__slice(s, c, a, b) ==
    [DelParents(s, Slice(s.list[c], a, b), 1)
        EXCEPT !.list[c] = SliceAssign(s.list[c], a, b, <<>>)]

\* BiList.set_list__(L): del_parent__ of the previous items, set_parent__ of
\* the items of L, then BaseList.set_list__
BiList_set_list__(s, c, L) ==
    [SetParents(DelParents(s, s.list[c], 1), L, c, 1) EXCEPT !.list[c] = L]

\* Sequence.index(x): the first position of x, from 0
Index(q, x) == (CHOOSE i \in DOMAIN q : q[i] = x /\ \A j \in 1 .. (i - 1) : q[j] # x) - 1

\* x in q
Contains(q, x) == \E i \in DOMAIN q : q[i] = x

\* MutableSequence.remove(x): del self[self.index(x)]
MutableSequence_remove(s, c, x) == BiList__delitem__(s, c, Index(s.list[c], x))

\* MutableSequence.pop(): v = self[-1]; del self[-1]; return v
MutableSequence_pop(s, c) == BiList__delitem__(s, c, Len(s.list[c]) - 1)

\* a variant of get_verified_parent__ that returns the recorded parent
\* without looking into it
BiListItem_get_parent__unverified(s, x) ==
    [s |-> s, ret |-> s.parent[x]]

\* BiListItem.get_verified_parent__: the state it leaves and what it returns
BiListItem_get_verified_parent__(s, x) ==
    IF BiListItem_get_parent__(s, x) = NOTHING
    THEN [s |-> [s EXCEPT !.warned = s.warned + 1], ret |-> NOTHING]
    ELSE IF ~Contains(s.list[BiListItem_get_parent__(s, x)], x)
    THEN [s |-> BiListItem_del_parent__([s EXCEPT !.warned = s.warned + 1], x),
          ret |-> NOTHING]
    ELSE [s |-> s, ret |-> BiListItem_get_parent__(s, x)]

\* a variant: the calls on None, which raise AttributeError or TypeError
None__call__(s) == [s EXCEPT !.raised = TRUE]

\* Nothing.__getattribute__, __call__, __setitem__, __add__: attribute access,
\* calls, item assignment and arithmetic on NOTHING return NOTHING or None,
\* change nothing and raise nothing
Nothing__call__(s) == s

\* the operations of a MutableBiListItem on itself start with
\* parent = self.get_verified_parent__(); when that is NOTHING, the calls
\* parent.index(self), parent[index] = ..., parent.insert(...) and
\* parent.remove(self) are calls on NOTHING

\* a variant: the new item is put at the place of n, and n stays behind it
MutableBiListItem_replace_self__keeping(s, n, m) ==
    LET r == BiListItem_get_verified_parent__(s, n) IN
    IF r.ret = NOTHING THEN Nothing__call__(r.s)
    ELSE BiList_insert(r.s, r.ret, Index(r.s.list[r.ret], n), m)

\* MutableBiListItem.replace_self__(m) of item n
MutableBiListItem_replace_self__(s, n, m) ==
    LET r == BiListItem_get_verified_parent__(s, n) IN
    IF r.ret = NOTHING THEN Nothing__call__(r.s)
    ELSE BiList__setitem__(r.s, r.ret, Index(r.s.list[r.ret], n), m)

\* MutableBiListItem.insert_before_self__(m) of item n
MutableBiListItem_insert_before_self__(s, n, m) ==
    LET r == BiListItem_get_verified_parent__(s, n) IN
    IF r.ret = NOTHING THEN Nothing__call__(r.s)
    ELSE BiList_insert(r.s, r.ret, Index(r.s.list[r.ret], n), m)

\* a variant: the new item is put at the index of n, not behind it
MutableBiListItem_insert_after_self__atIndex(s, n, m) ==
    LET r == BiListItem_get_verified_parent__(s, n) IN
    IF r.ret = NOTHING THEN Nothing__call__(r.s)
    ELSE BiList_insert(r.s, r.ret, Index(r.s.list[r.ret], n), m)

\* MutableBiListItem.insert_after_self__(m) of item n
MutableBiListItem_insert_after_self__(s, n, m) ==
    LET r == BiListItem_get_verified_parent__(s, n) IN
    IF r.ret = NOTHING THEN Nothing__call__(r.s)
    ELSE BiList_insert(r.s, r.ret, Index(r.s.list[r.ret], n) + 1, m)

\* MutableBiListItem.remove_self__() of item n
MutableBiListItem_remove_self__(s, n) ==
    LET r == BiListItem_get_verified_parent__(s, n) IN
    IF r.ret = NOTHING THEN Nothing__call__(r.s)
    ELSE MutableSequence_remove(r.s, r.ret, n)

\* no operation yet
NoOp ==
    [name |-> "", c |-> NOTHING, x |-> NOTHING, added |-> {}, removed |-> {},
     prevList |-> <<>>, prevParent |-> <<>>, warned |-> 0, raised |-> FALSE,
     ret |-> NOTHING]

\* the items of a sequence
Items(q) == {q[i] : i \in DOMAIN q}

RECURSIVE SumLen(_, _)
\* the lengths of the child sequences l[1..n] together
SumLen(l, n) == IF n = 0 THEN 0 ELSE Len(l[n]) + SumLen(l, n - 1)

\* the lists of items that are given to extend, to the constructor, to a
\* slice assignment and to set_list__: lists of different items
ItemSeqs ==
    {L \in UNION {[1 .. k -> BiListItems] : k \in 0 .. MaxChildren} :
        \A i, j \in DOMAIN L : i # j => L[i] # L[j]}

\* ---------------------------------------------------------------------------
\* The build hooks: launch, plugins, build
\* ---------------------------------------------------------------------------

\* the events of one build
EvLaunchBefore == [hook |-> "launch", ev |-> "before", who |-> NOTHING]

EvLaunchAfter == [hook |-> "launch", ev |-> "after", who |-> NOTHING]

EvPluginBefore(p) == [hook |-> "plugin", ev |-> "before", who |-> p]

EvPluginAfter(p) == [hook |-> "plugin", ev |-> "after", who |-> p]

EvBuild == [hook |-> "build", ev |-> "build", who |-> NOTHING]

\* the generator of CorePluginContainer.build_*_yield is at its yield
EvYield == [hook |-> "plugins", ev |-> "yield", who |-> NOTHING]

\* gen() on the BaseGenerator of plugin.build_*_yield(ctx): next(gen).  The
\* first one runs the code before the yield, the second one the code after
\* it (the StopIteration is taken by call__).  q records the generators that
\* were started, the exception in flight and the events.
BaseGenerator__call__(p, q) ==
    IF p \in q.started
    THEN [started |-> q.started, exc |-> NoExc,
          tr |-> Append(q.tr, EvPluginAfter(p))]
    ELSE [started |-> q.started \cup {p},
          exc |-> IF pluginBody[p] = "yield" THEN NoExc
                  ELSE Raise(pluginBody[p], "before", p),
          tr |-> Append(q.tr, EvPluginBefore(p))]

RECURSIVE ForGenInGenList(_, _, _)
\* for gen in gen_list: gen()
ForGenInGenList(gens, i, q) ==
    IF i > Len(gens) \/ q.exc # NoExc THEN q
    ELSE ForGenInGenList(gens, i + 1, BaseGenerator__call__(gens[i], q))

\* a variant of the first part of BaseGeneratorQueue that makes the tuple
\* of the yielded values at once
BaseGeneratorQueue__enter__tuple(gens, q) == ForGenInGenList(gens, 1, q)

\* BaseGeneratorQueue up to its yield: gen_list = BaseList(...) creates the
\* generator objects, and vals = (gen() for gen in gen_list) is a generator
\* expression that nobody iterates, so that no gen() is run
BaseGeneratorQueue__enter__(gens, q) == q

\* BaseGeneratorQueue after its yield, without an exception
BaseGeneratorQueue__exit__(gens, q) == ForGenInGenList(gens, 1, q)

\* BaseGeneratorQueue with an exception thrown in at its yield: it is not
\* caught and leaves the generator
BaseGeneratorQueue__exit__throw(gens, e, q) == [q EXCEPT !.exc = e]

\* CorePluginContainer.build_*_yield up to its yield
CorePluginContainer_build_yield_start(q) ==
    BaseGeneratorQueue__enter__(plugins, q)

\* CorePluginContainer.build_*_yield resumed: by next when e is NoExc, by
\* throw(e) otherwise
CorePluginContainer_build_yield_resume(e, q) ==
    IF e = NoExc
    THEN BaseGeneratorQueue__exit__(plugins, q)
    ELSE BaseGeneratorQueue__exit__throw(plugins, e, q)

\* g = plugins.build_*_yield(ctx) driven by hand: next(g) up to the yield,
\* then next(g) when e is NoExc, g.throw(e) otherwise; a generator that
\* raised before its yield is not resumed
CorePluginContainer_build_yield_driven(e, q) ==
    IF q.exc # NoExc THEN q
    ELSE CorePluginContainer_build_yield_resume(
             e, [q EXCEPT !.tr = Append(q.tr, EvYield)])

\* the launch hook's build_*_yield up to its yield
CoreLaunchHook_build_yield_start(q) ==
    [q EXCEPT !.tr = Append(q.tr, EvLaunchBefore)]

\* the launch hook's build_*_yield resumed, by next or by throw: it lets an
\* exception thrown in pass
CoreLaunchHook_build_yield_resume(q) ==
    [q EXCEPT !.tr = Append(q.tr, EvLaunchAfter)]

\* build.build_train(ctx) / build_eval / build_predict
CoreBuildHook_build(q) ==
    [q EXCEPT !.tr = Append(q.tr, EvBuild),
              !.exc = IF buildBody = "ok" THEN NoExc
                      ELSE Raise(buildBody, "build", NOTHING)]

\* the inner scopes of run_build_*__ once the launch scope is open: the
\* plugins scope around build; a scope whose before-phase raised is not
\* resumed
RunBuildInner(q) ==
    IF q.exc # NoExc THEN q
    ELSE CorePluginContainer_build_yield_resume(CoreBuildHook_build(q).exc,
                                                CoreBuildHook_build(q))

\* run_build_train__ / run_build_eval__ / run_build_predict__: the launch
\* scope around the plugins scope around build, every opened scope resumed
\* once, on the normal path or with the exception in flight
CoreBuildHook_run_build__ ==
    CoreLaunchHook_build_yield_resume(
        RunBuildInner(
            CorePluginContainer_build_yield_start(
                CoreLaunchHook_build_yield_start(
                    [started |-> {}, exc |-> NoExc, tr |-> <<>>]))))

\* an empty CorePluginContainer, plugins and a build hook that do not raise
HooksInit ==
    /\ plugins = <<>>
    /\ pluginBody = [p \in Plugins |-> "yield"]
    /\ buildBody = "ok"

\* ---------------------------------------------------------------------------
\* Count: the generator of the handler ids
\* ---------------------------------------------------------------------------

\* the process of a thread
ProcOf(t) == ((t - 1) \div NumThreads) + 1

\* Count() at the import of the module in every process, and no thread in
\* __get__ yet
CountInit ==
    /\ value = [p \in Procs |-> 0]
    /\ t_lock = [p \in Procs |-> NOTHING]
    /\ p_lock = NOTHING
    /\ cpc = [t \in Threads |-> "start"]
    /\ local = [t \in Threads |-> NOTHING]
    /\ reads = <<>>

\* a singleton class as _SingletonMetaclass.__init__ leaves it, and the
\* threads that are going to call it
SingletonInit ==
    /\ instance = NOTHING
    /\ meta_t_lock = NOTHING
    /\ meta_p_lock = NOTHING
    /\ spc = [t \in Callers |-> "start"]
    /\ calls = [t \in Callers |-> 0]
    /\ constructed = <<>>
    /\ returned = <<>>

\* no registration call has been made
NoCall == [name |-> "none", keys |-> <<>>, cls |-> NOTHING, strict |-> "MISSING",
           raised |-> "None", prev |-> <<>>]

\* GeneralRegistry(namespace): an empty dict, strict = True by default
RegistryInit ==
    /\ registry = [dict |-> <<>>, strict |-> TRUE]
    /\ registered = NoCall

\* no with statement has been entered
NoScope == [state |-> "out", kind |-> "none", attrs |-> {}, attr_assign |-> <<>>,
            prev_value_dict |-> <<>>, entry |-> <<>>, steps |-> 0,
            exc |-> "None"]

\* a Base object without attributes
ScopedInit ==
    /\ obj = [base |-> TRUE, dict |-> <<>>]
    /\ scope = NoScope

\* ---------------------------------------------------------------------------
\* The state machine
\* ---------------------------------------------------------------------------

\* the number of handlers and wrappers of the pipeline
Objects ==
    Cardinality({h \in Handlers : InTree(h)})
    + Cardinality({w \in WrapperIds : parent[w] # NOTHING})

\* how many bodies and settings were changed from what the base classes give
Deviations ==
    Cardinality({h \in Leaves : handleBody[h] # "ok"})
    + Cardinality({w \in WrapperIds : yieldBefore[w] # "yield"})
    + Cardinality({w \in WrapperIds : yieldAfter[w] # "finish"})
    + Cardinality({w \in WrapperIds : yieldExcept[w] # "reraise"})
    + Cardinality({h \in Handlers : exec_ranks[h] # ExecRanksPASS})
    + Cardinality({h \in Handlers : id[h] # DefaultId(h)})
    + Cardinality({h \in Handlers : ~wrappers[h].nothing /\ wrappers[h].list = <<>>})

Size == Objects + Deviations

\* the handlers and wrappers as their constructors leave them, in a process
\* of rank 0
EngineInit ==
    /\ wrappers = [h \in Handlers |-> [nothing |-> TRUE, list |-> <<>>]]
    /\ exec_ranks = [h \in Handlers |-> ExecRanksPASS]
    /\ id = [h \in Handlers |-> DefaultId(h)]
    /\ handleBody = [h \in Leaves |-> "ok"]
    /\ yieldBefore = [w \in WrapperIds |-> "yield"]
    /\ yieldAfter = [w \in WrapperIds |-> "finish"]
    /\ yieldExcept = [w \in WrapperIds |-> "reraise"]
    /\ rank = 0
    /\ called = NOTHING

\* nothing was run yet
RunInit ==
    /\ pc = "build"
    /\ trace = <<>>
    /\ result = NoExc

Init ==
    /\ list = [c \in Containers |-> <<>>]
    /\ parent = [x \in Handlers \cup WrapperIds |-> NOTHING]
    /\ EngineInit
    /\ RunInit
    /\ op = NoOp
    /\ HooksInit
    /\ CountInit
    /\ SingletonInit
    /\ RegistryInit
    /\ ScopedInit

\* container.append(h): MutableSequence.append is insert(len(self), h), and
\* BiList.insert sets the parent of h before it inserts.  The tree is put
\* together in preorder, so that every ordered tree is built in one way.
append(c, h) ==
    /\ pc = "build"
    /\ h # 1
    /\ parent[h] = NOTHING
    /\ h = NextUnused(IF h \in Containers THEN Containers ELSE Leaves)
    /\ OnSpine(c)
    /\ Size < MaxSize
    /\ parent' = set_parent__(parent, h, c)
    /\ list' = [list EXCEPT ![c] = ListInsert(list[c], Len(list[c]), h)]
    /\ UNCHANGED <<wrappers, exec_ranks, id, bodyVars, rank, runVars, sideVars>>

\* h.set_wrappers(ws) with ws a list of k wrappers: a new
\* CoreHandlerWrapperContainer(ws) whose BiList takes the wrappers as children
set_wrappers(h, k) ==
    /\ pc = "build"
    /\ InTree(h)
    /\ wrappers[h].nothing
    /\ \A g \in Handlers : g > h => wrappers[g].nothing
    /\ k <= Cardinality(Unused(WrapperIds))
    /\ Size + k <= MaxSize
    /\ k = 0 => Size < MaxSize
    /\ LET ws == TakeUnused(Unused(WrapperIds), k) IN
       /\ wrappers' = [wrappers EXCEPT ![h] = [nothing |-> FALSE, list |-> ws]]
       /\ parent' = [x \in DOMAIN parent |->
                        IF \E i \in 1 .. k : ws[i] = x
                        THEN WrapperContainerOf(h)
                        ELSE parent[x]]
    /\ UNCHANGED <<list, exec_ranks, id, bodyVars, rank, runVars, sideVars>>

\* the arguments of set_exec_ranks: NOTHING, the rank of the process, the
\* other ranks
ExecRanksInputs ==
    {ExecRanksNOTHING, ExecRanksList({rank}), ExecRanksList(Ranks \ {rank})}

\* h.set_exec_ranks(er) with er NOTHING or a list of ranks
set_exec_ranks(h, er) ==
    /\ pc = "build"
    /\ exec_ranks[h] = ExecRanksPASS
    /\ er # ExecRanksPASS
    /\ InTree(h)
    /\ Size < MaxSize
    /\ exec_ranks' = [exec_ranks EXCEPT ![h] = er]
    /\ UNCHANGED <<list, parent, wrappers, id, bodyVars, rank, runVars, sideVars>>

\* the class of leaf h overrides handle with a body that raises `kind`
OverrideHandle(h, kind) ==
    /\ pc = "build"
    /\ handleBody[h] = "ok"
    /\ InTree(h)
    /\ Size < MaxSize
    /\ handleBody' = [handleBody EXCEPT ![h] = kind]
    /\ UNCHANGED <<treeVars, yieldBefore, yieldAfter, yieldExcept, rank, runVars, sideVars>>

\* the class of wrapper w overrides handle_yield: the code before the yield
\* yields STOP or raises
OverrideBefore(w, b) ==
    /\ pc = "build"
    /\ yieldBefore[w] = "yield"
    /\ parent[w] # NOTHING
    /\ Size < MaxSize
    /\ yieldBefore' = [yieldBefore EXCEPT ![w] = b]
    /\ UNCHANGED <<treeVars, handleBody, yieldAfter, yieldExcept, rank, runVars, sideVars>>

\* ... the code after the yield yields once more or raises
OverrideAfter(w, a) ==
    /\ pc = "build"
    /\ yieldAfter[w] = "finish"
    /\ parent[w] # NOTHING
    /\ Size < MaxSize
    /\ yieldAfter' = [yieldAfter EXCEPT ![w] = a]
    /\ UNCHANGED <<treeVars, handleBody, yieldBefore, yieldExcept, rank, runVars, sideVars>>

\* ... the yield is inside a try whose except clause returns, yields once
\* more or raises
OverrideExcept(w, x) ==
    /\ pc = "build"
    /\ yieldExcept[w] = "reraise"
    /\ parent[w] # NOTHING
    /\ Size < MaxSize
    /\ yieldExcept' = [yieldExcept EXCEPT ![w] = x]
    /\ UNCHANGED <<treeVars, handleBody, yieldBefore, yieldAfter, rank, runVars, sideVars>>

\* a variant of the run in which the loop of a container takes its children
\* out of the child sequence as it calls them (`while self: self.pop(0)(ctx)`)
CallConsuming(h) ==
    /\ pc = "build"
    /\ InTree(h)
    /\ h = 1 \/ (h \in Leaves /\ list[1] = <<h>>)
    /\ \E r \in {Invoke(h, <<>>)} :
          /\ trace' = r.tr
          /\ result' = r.exc
          /\ list' = [c \in DOMAIN list |->
                         IF c \in Containers /\ EvHandle(c) \in Items(r.tr)
                         THEN <<>> ELSE list[c]]
    /\ called' = h
    /\ pc' = "done"
    /\ UNCHANGED <<parent, wrappers, exec_ranks, id, bodyVars, rank, sideVars>>

\* h(ctx): one run of __call__ of a handler of the tree
Call(h) ==
    /\ pc = "build"
    /\ InTree(h)
    /\ h = 1 \/ (h \in Leaves /\ list[1] = <<h>>)
    /\ \E r \in {Invoke(h, <<>>)} :
          /\ trace' = r.tr
          /\ result' = r.exc
    /\ called' = h
    /\ pc' = "done"
    /\ UNCHANGED <<treeVars, bodyVars, rank, sideVars>>

Next ==
    \/ \E c \in Containers, h \in Handlers : append(c, h)
    \/ \E h \in Handlers, k \in 0 .. NumWrappers : set_wrappers(h, k)
    \/ \E h \in Handlers, er \in ExecRanksInputs : set_exec_ranks(h, er)
    \/ \E h \in Leaves, kind \in Raisable : OverrideHandle(h, kind)
    \/ \E w \in WrapperIds, b \in {"stop"} \cup WrapperRaisable : OverrideBefore(w, b)
    \/ \E w \in WrapperIds, a \in WrapperRaisable : OverrideAfter(w, a)
    \/ \E w \in WrapperIds, x \in {"finish", "yield"} \cup WrapperRaisable : OverrideExcept(w, x)
    \/ \E h \in Handlers : Call(h)

Spec == Init /\ [][Next]_vars

\* ---------------------------------------------------------------------------
\* The state machine of a search in a handler tree
\* ---------------------------------------------------------------------------

\* h.set_id(i) with an id that is not NOTHING.  The names are
\* interchangeable: the next new name is the one with the smallest number.
set_id(h, i) ==
    /\ pc = "build"
    /\ InTree(h)
    /\ id[h] = DefaultId(h)
    /\ i # DefaultId(h)
    /\ \A g \in Handlers : g > h => id[g] = DefaultId(g)
    /\ \A k \in 2 .. NumIds :
          i = <<"id", k>> => \E g \in Handlers : id[g] = <<"id", k - 1>>
    /\ Size < MaxSize
    /\ id' = [id EXCEPT ![h] = i]
    /\ UNCHANGED <<list, parent, wrappers, exec_ranks, bodyVars, rank, runVars, sideVars>>

\* h.get_by_id(i): the search is recorded with the nodes it has tested, the
\* warnings it has logged and what it has returned
get_by_id(h, i) ==
    /\ pc = "build"
    /\ InTree(h)
    /\ \E r \in {CoreHandler_get_by_id(h, i)} :
          op' = [NoOp EXCEPT !.name = "get_by_id", !.c = h, !.x = i,
                             !.warned = r.warned, !.ret = r.ret]
    /\ trace' = CompositeDFT(<<(<<h>>)>>, <<>>)
    /\ pc' = "done"
    /\ UNCHANGED <<treeVars, bodyVars, rank, called, result, hookVars, utilVars>>

\* h.get_by_class(cls), recorded in the same way
get_by_class(h, cls) ==
    /\ pc = "build"
    /\ InTree(h)
    /\ op' = [NoOp EXCEPT !.name = "get_by_class", !.c = h, !.x = cls,
                          !.ret = CoreHandler_get_by_class(h, cls)]
    /\ trace' = CompositeDFT(<<(<<h>>)>>, <<>>)
    /\ pc' = "done"
    /\ UNCHANGED <<treeVars, bodyVars, rank, called, result, hookVars, utilVars>>

\* h.get_by_filter(f), recorded in the same way
get_by_filter(h, f) ==
    /\ pc = "build"
    /\ InTree(h)
    /\ op' = [NoOp EXCEPT !.name = "get_by_filter", !.c = h, !.x = f,
                          !.ret = CoreHandler_get_by_filter(h, FilterTrue(f))]
    /\ trace' = CompositeDFT(<<(<<h>>)>>, <<>>)
    /\ pc' = "done"
    /\ UNCHANGED <<treeVars, bodyVars, rank, called, result, hookVars, utilVars>>

NextSearch ==
    \/ \E c \in Containers, h \in Handlers : append(c, h)
    \/ \E h \in Handlers, i \in IdInputs : set_id(h, i)
    \/ \E h \in Handlers, i \in IdInputs : get_by_id(h, i)
    \/ \E h \in Handlers, cls \in ClassInputs : get_by_class(h, cls)
    \/ \E h \in Handlers, f \in FilterInputs : get_by_filter(h, f)

SpecSearch == Init /\ [][NextSearch]_vars

\* ---------------------------------------------------------------------------
\* The state machine of a search in a handler tree whose nodes have wrappers
\* ---------------------------------------------------------------------------

NextWrappedSearch ==
    \/ \E c \in Containers, h \in Handlers : append(c, h)
    \/ \E h \in Handlers, k \in 0 .. NumWrappers : set_wrappers(h, k)
    \/ \E h \in Handlers, i \in IdInputs : get_by_id(h, i)
    \/ \E h \in Handlers, cls \in ClassInputs : get_by_class(h, cls)
    \/ \E h \in Handlers, f \in FilterInputs : get_by_filter(h, f)

SpecWrappedSearch == Init /\ [][NextWrappedSearch]_vars

\* ---------------------------------------------------------------------------
\* The state machine of BiList operations
\* ---------------------------------------------------------------------------

\* BiLists and items as their constructors leave them
InitBiList ==
    /\ list = [c \in BiLists |-> <<>>]
    /\ parent = [x \in BiListItems |-> NOTHING]
    /\ EngineInit
    /\ RunInit
    /\ op = NoOp
    /\ HooksInit
    /\ CountInit
    /\ SingletonInit
    /\ RegistryInit
    /\ ScopedInit

\* the children of all BiLists together
Children == SumLen(list, NumBiLists)

\* an operation `name` on BiList c (and item x) has left state s and returned
\* ret; added and removed are the items it was asked to put in and take out.
\* The operation is one of those that bring the objects into some state, of
\* which nothing is kept, or it is the last one, the one that is looked at:
\* then op keeps what it was given, what the lists and the parent references
\* were before it, what it logged and what it returned.
BiListStep(name, c, x, added, removed, s, ret) ==
    /\ list' = s.list
    /\ parent' = s.parent
    /\ \E last \in BOOLEAN :
          op' = IF last
                THEN [name |-> name, c |-> c, x |-> x, added |-> added,
                      removed |-> removed, prevList |-> list,
                      prevParent |-> parent, warned |-> s.warned,
                      raised |-> s.raised, ret |-> ret]
                ELSE NoOp
    /\ UNCHANGED <<engineVars, pc, trace, result, hookVars, utilVars>>

\* c.insert(index, x)
insert(c, index, x) ==
    /\ op = NoOp
    /\ Children < MaxChildren
    /\ index \in 0 .. Len(list[c])
    /\ BiListStep("insert", c, x, {x}, {},
                  BiList_insert(BiState(list, parent), c, index, x), NOTHING)

\* c.append(x), of any BiList
append_item(c, x) ==
    /\ op = NoOp
    /\ Children < MaxChildren
    /\ BiListStep("append", c, x, {x}, {},
                  MutableSequence_append(BiState(list, parent), c, x), NOTHING)

\* c.extend(L)
extend(c, L) ==
    /\ op = NoOp
    /\ Len(L) > 0
    /\ Children + Len(L) <= MaxChildren
    /\ BiListStep("extend", c, NOTHING, Items(L), {},
                  MutableSequence_extend(BiState(list, parent), c, L, 1), NOTHING)

\* c = BiList(L): c is a new object, no item refers to it
construct(c, L) ==
    /\ op = NoOp
    /\ Len(L) > 0
    /\ list[c] = <<>>
    /\ \A x \in BiListItems : parent[x] # c
    /\ Children + Len(L) <= MaxChildren
    /\ BiListStep("construct", c, NOTHING, Items(L), {},
                  BaseList__init__(BiState(list, parent), c, L), NOTHING)

\* c[index] = x
setitem(c, index, x) ==
    /\ op = NoOp
    /\ index \in 0 .. (Len(list[c]) - 1)
    /\ BiListStep("setitem", c, x, {x}, {list[c][index + 1]},
                  BiList__setitem__(BiState(list, parent), c, index, x), NOTHING)

\* c[a:b] = L
setslice(c, a, b, L) ==
    /\ op = NoOp
    /\ a \in 0 .. Len(list[c])
    /\ b \in a .. Len(list[c])
    /\ a < b \/ Len(L) > 0
    /\ Children - (b - a) + Len(L) <= MaxChildren
    /\ BiListStep("setslice", c, NOTHING, Items(L), Items(Slice(list[c], a, b)),
                  BiList__setitem__slice(BiState(list, parent), c, a, b, L), NOTHING)

\* c[a:b] = iter(L), or a generator or any other iterable that can be gone
\* through once
setslice_iter(c, a, b, L) ==
    /\ op = NoOp
    /\ a \in 0 .. Len(list[c])
    /\ b \in a .. Len(list[c])
    /\ Len(L) > 0
    /\ BiListStep("setslice_iter", c, NOTHING, Items(L), Items(Slice(list[c], a, b)),
                  BiList__setitem__iter(BiState(list, parent), c, a, b, L), NOTHING)

\* c.set_list__(L)
set_list(c, L) ==
    /\ op = NoOp
    /\ Children - Len(list[c]) + Len(L) <= MaxChildren
    /\ list[c] # <<>> \/ L # <<>>
    /\ BiListStep("set_list__", c, NOTHING, Items(L), Items(list[c]),
                  BiList_set_list__(BiState(list, parent), c, L), NOTHING)

\* del c[index]
delitem(c, index) ==
    /\ op = NoOp
    /\ index \in 0 .. (Len(list[c]) - 1)
    /\ BiListStep("delitem", c, list[c][index + 1], {}, {list[c][index + 1]},
                  BiList__delitem__(BiState(list, parent), c, index), NOTHING)

\* del c[a:b]
delslice(c, a, b) ==
    /\ op = NoOp
    /\ a \in 0 .. Len(list[c])
    /\ b \in (a + 1) .. Len(list[c])
    /\ BiListStep("delslice", c, NOTHING, {}, Items(Slice(list[c], a, b)),
                  BiList__delitem__slice(BiState(list, parent), c, a, b), NOTHING)

\* c.remove(x)
remove(c, x) ==
    /\ op = NoOp
    /\ Contains(list[c], x)
    /\ BiListStep("remove", c, x, {}, {x},
                  MutableSequence_remove(BiState(list, parent), c, x), NOTHING)

\* c.pop(): returns the last item
pop(c) ==
    /\ op = NoOp
    /\ list[c] # <<>>
    /\ BiListStep("pop", c, list[c][Len(list[c])], {}, {list[c][Len(list[c])]},
                  MutableSequence_pop(BiState(list, parent), c),
                  list[c][Len(list[c])])

\* del c.get_list__()[index]: code outside BiList changes the list that
\* get_list__ hands out, and no parent reference follows
get_list_del(c, index) ==
    /\ op = NoOp
    /\ index \in 0 .. (Len(list[c]) - 1)
    /\ BiListStep("get_list__", c, list[c][index + 1], {}, {},
                  BaseList__delitem__(BiState(list, parent), c, index), NOTHING)

\* x.get_verified_parent__()
get_verified_parent(x) ==
    /\ op = NoOp
    /\ \E r \in {BiListItem_get_verified_parent__(BiState(list, parent), x)} :
          BiListStep("get_verified_parent__", NOTHING, x, {}, {}, r.s, r.ret)

\* n.replace_self__(m)
replace_self(n, m) ==
    /\ op = NoOp
    /\ BiListStep("replace_self__", parent[n], n, {m}, {n},
                  MutableBiListItem_replace_self__(BiState(list, parent), n, m),
                  NOTHING)

\* n.insert_before_self__(m)
insert_before_self(n, m) ==
    /\ op = NoOp
    /\ Children < MaxChildren
    /\ BiListStep("insert_before_self__", parent[n], n, {m}, {},
                  MutableBiListItem_insert_before_self__(BiState(list, parent), n, m),
                  NOTHING)

\* n.insert_after_self__(m)
insert_after_self(n, m) ==
    /\ op = NoOp
    /\ Children < MaxChildren
    /\ BiListStep("insert_after_self__", parent[n], n, {m}, {},
                  MutableBiListItem_insert_after_self__(BiState(list, parent), n, m),
                  NOTHING)

\* n.remove_self__()
remove_self(n) ==
    /\ op = NoOp
    /\ BiListStep("remove_self__", parent[n], n, {}, {n},
                  MutableBiListItem_remove_self__(BiState(list, parent), n),
                  NOTHING)

NextBiList ==
    \/ \E c \in BiLists, i \in 0 .. MaxChildren, x \in BiListItems : insert(c, i, x)
    \/ \E c \in BiLists, x \in BiListItems : append_item(c, x)
    \/ \E c \in BiLists, L \in ItemSeqs : extend(c, L)
    \/ \E c \in BiLists, L \in ItemSeqs : construct(c, L)
    \/ \E c \in BiLists, i \in 0 .. MaxChildren, x \in BiListItems : setitem(c, i, x)
    \/ \E c \in BiLists, a, b \in 0 .. MaxChildren, L \in ItemSeqs : setslice(c, a, b, L)
    \/ \E c \in BiLists, L \in ItemSeqs : set_list(c, L)
    \/ \E c \in BiLists, i \in 0 .. MaxChildren : delitem(c, i)
    \/ \E c \in BiLists, a, b \in 0 .. MaxChildren : delslice(c, a, b)
    \/ \E c \in BiLists, x \in BiListItems : remove(c, x)
    \/ \E c \in BiLists : pop(c)
    \/ \E c \in BiLists, i \in 0 .. MaxChildren : get_list_del(c, i)
    \/ \E x \in BiListItems : get_verified_parent(x)
    \/ \E c \in BiLists, a, b \in 0 .. MaxChildren, L \in ItemSeqs : setslice_iter(c, a, b, L)
    \/ \E n, m \in BiListItems : replace_self(n, m)
    \/ \E n, m \in BiListItems : insert_before_self(n, m)
    \/ \E n, m \in BiListItems : insert_after_self(n, m)
    \/ \E n \in BiListItems : remove_self(n)

SpecBiList == InitBiList /\ [][NextBiList]_vars

\* ---------------------------------------------------------------------------
\* The state machine of the operations of a node on itself
\* ---------------------------------------------------------------------------

\* BiLists and nodes as their constructors leave them
InitItem ==
    /\ list = [c \in BiLists |-> <<>>]
    /\ parent = [x \in Nodes |-> NOTHING]
    /\ EngineInit
    /\ RunInit
    /\ op = NoOp
    /\ HooksInit
    /\ CountInit
    /\ SingletonInit
    /\ RegistryInit
    /\ ScopedInit

\* the nodes are inserted into the BiLists, and then replace themselves, put
\* a node next to themselves or remove themselves
NextItem ==
    \/ \E c \in BiLists, i \in 0 .. MaxChildren, x \in Nodes : insert(c, i, x)
    \/ \E n, m \in Nodes : replace_self(n, m)
    \/ \E n, m \in Nodes : insert_before_self(n, m)
    \/ \E n, m \in Nodes : insert_after_self(n, m)
    \/ \E n \in Nodes : remove_self(n)

SpecItem == InitItem /\ [][NextItem]_vars

\* ---------------------------------------------------------------------------
\* The state machine of one build
\* ---------------------------------------------------------------------------

\* plugins.append(p): p is registered
register(p) ==
    /\ pc = "build"
    /\ ~Contains(plugins, p)
    /\ plugins' = Append(plugins, p)
    /\ UNCHANGED <<list, parent, engineVars, pc, trace, result, op,
                   pluginBody, buildBody, utilVars>>

\* the class of plugin p overrides build_*_yield with a body that raises
\* before its yield
OverridePlugin(p) ==
    /\ pc = "build"
    /\ Contains(plugins, p)
    /\ pluginBody[p] = "yield"
    /\ pluginBody' = [pluginBody EXCEPT ![p] = "Error"]
    /\ UNCHANGED <<list, parent, engineVars, pc, trace, result, op,
                   plugins, buildBody, utilVars>>

\* the build hook overrides build_train / build_eval / build_predict with a
\* body that raises
OverrideBuild ==
    /\ pc = "build"
    /\ buildBody = "ok"
    /\ buildBody' = "Error"
    /\ UNCHANGED <<list, parent, engineVars, pc, trace, result, op,
                   plugins, pluginBody, utilVars>>

\* run_build_train__(ctx) / run_build_eval__ / run_build_predict__
run_build ==
    /\ pc = "build"
    /\ \E q \in {CoreBuildHook_run_build__} :
          /\ trace' = q.tr
          /\ result' = q.exc
    /\ pc' = "done"
    /\ UNCHANGED <<list, parent, engineVars, op, hookVars, utilVars>>

\* what the code around the yield of build_*_yield does: it returns, or it
\* raises an error that is thrown into the generator
AtYieldInputs == {NoExc, Raise("Error", "build", NOTHING)}

\* g = plugins.build_train_yield(ctx); next(g); then next(g) or g.throw(e)
build_yield(e) ==
    /\ pc = "build"
    /\ \E q \in {CorePluginContainer_build_yield_driven(
                     e, CorePluginContainer_build_yield_start(
                            [started |-> {}, exc |-> NoExc, tr |-> <<>>]))} :
          /\ trace' = q.tr
          /\ result' = q.exc
    /\ op' = [NoOp EXCEPT !.name = "build_yield", !.x = e]
    /\ pc' = "yielded"
    /\ UNCHANGED <<list, parent, engineVars, hookVars, utilVars>>

NextBuild ==
    \/ \E p \in Plugins : register(p)
    \/ \E p \in Plugins : OverridePlugin(p)
    \/ OverrideBuild
    \/ run_build
    \/ \E e \in AtYieldInputs : build_yield(e)

SpecBuild == Init /\ [][NextBuild]_vars

\* ---------------------------------------------------------------------------
\* The state machine of Count.__get__ in the threads of the processes
\* ---------------------------------------------------------------------------

\* what the threads leave alone
notCountVars == <<list, parent, engineVars, pc, trace, result, op, hookVars,
                  singletonVars, registryVars, scopedVars>>

\* with self.__t_lock: the lock of the process of t is taken.  The threads
\* of a process run the same code, so they are let in in the order of their
\* numbers.
acquire_t_lock(t) ==
    /\ cpc[t] = "start"
    /\ \A u \in Threads : (ProcOf(u) = ProcOf(t) /\ u < t) => cpc[u] # "start"
    /\ t_lock[ProcOf(t)] = NOTHING
    /\ t_lock' = [t_lock EXCEPT ![ProcOf(t)] = t]
    /\ cpc' = [cpc EXCEPT ![t] = "t_lock"]
    /\ UNCHANGED <<value, p_lock, local, reads, notCountVars>>

\* with ..., self.__p_lock: the lock that the processes share is taken
acquire_p_lock(t) ==
    /\ cpc[t] = "t_lock"
    /\ p_lock = NOTHING
    /\ p_lock' = t
    /\ cpc' = [cpc EXCEPT ![t] = "p_lock"]
    /\ UNCHANGED <<value, t_lock, local, reads, notCountVars>>

\* value = self.value: the Count object in the memory of the process of t
read_value(t) ==
    /\ cpc[t] = "p_lock"
    /\ local' = [local EXCEPT ![t] = value[ProcOf(t)]]
    /\ reads' = Append(reads, value[ProcOf(t)])
    /\ cpc' = [cpc EXCEPT ![t] = "read"]
    /\ UNCHANGED <<value, t_lock, p_lock, notCountVars>>

\* self.value += 1
increment_value(t) ==
    /\ cpc[t] = "read"
    /\ value' = [value EXCEPT ![ProcOf(t)] = value[ProcOf(t)] + 1]
    /\ cpc' = [cpc EXCEPT ![t] = "incremented"]
    /\ UNCHANGED <<t_lock, p_lock, local, reads, notCountVars>>

\* the with statement is left: __p_lock is released
release_p_lock(t) ==
    /\ cpc[t] = "incremented"
    /\ p_lock' = NOTHING
    /\ cpc' = [cpc EXCEPT ![t] = "p_released"]
    /\ UNCHANGED <<value, t_lock, local, reads, notCountVars>>

\* ... then __t_lock is released, and __get__ returns value
release_t_lock(t) ==
    /\ cpc[t] = "p_released"
    /\ t_lock' = [t_lock EXCEPT ![ProcOf(t)] = NOTHING]
    /\ cpc' = [cpc EXCEPT ![t] = "done"]
    /\ UNCHANGED <<value, p_lock, local, reads, notCountVars>>

NextCount ==
    \/ \E t \in Threads : acquire_t_lock(t)
    \/ \E t \in Threads : acquire_p_lock(t)
    \/ \E t \in Threads : read_value(t)
    \/ \E t \in Threads : increment_value(t)
    \/ \E t \in Threads : release_p_lock(t)
    \/ \E t \in Threads : release_t_lock(t)

SpecCount == Init /\ [][NextCount]_vars

\* ---------------------------------------------------------------------------
\* The state machine of _SingletonMetaclass.__call__ in the threads of a
\* process
\* ---------------------------------------------------------------------------

\* what the threads leave alone
notSingletonVars == <<list, parent, engineVars, pc, trace, result, op, hookVars,
                      countVars, registryVars, scopedVars>>

\* the call has ended: the thread calls the class again, up to MaxCalls times
AfterCall(t) == IF calls[t] + 1 < MaxCalls THEN "start" ELSE "finished"

\* the second test, made by the thread that holds both locks, without the
\* test: the variant that constructs whenever the first test has passed
instance_is_None_unchecked == TRUE

\* if self.__instance is None: the second test, made by the thread that
\* holds both locks
instance_is_None_locked == instance = NOTHING

\* if self.__instance is None: the first test, without a lock
first_check(t) ==
    /\ spc[t] = "start"
    /\ spc' = [spc EXCEPT ![t] = IF instance = NOTHING THEN "want_t_lock"
                                                       ELSE "return"]
    /\ UNCHANGED <<instance, meta_t_lock, meta_p_lock, calls, constructed,
                   returned, notSingletonVars>>

\* with self.__t_lock
acquire_meta_t_lock(t) ==
    /\ spc[t] = "want_t_lock"
    /\ meta_t_lock = NOTHING
    /\ meta_t_lock' = t
    /\ spc' = [spc EXCEPT ![t] = "want_p_lock"]
    /\ UNCHANGED <<instance, meta_p_lock, calls, constructed, returned,
                   notSingletonVars>>

\* with ..., self.__p_lock
acquire_meta_p_lock(t) ==
    /\ spc[t] = "want_p_lock"
    /\ meta_p_lock = NOTHING
    /\ meta_p_lock' = t
    /\ spc' = [spc EXCEPT ![t] = "locked"]
    /\ UNCHANGED <<instance, meta_t_lock, calls, constructed, returned,
                   notSingletonVars>>

\* if self.__instance is None: the second test, with both locks held
second_check(t) ==
    /\ spc[t] = "locked"
    /\ spc' = [spc EXCEPT ![t] = IF instance_is_None_locked THEN "construct"
                                                            ELSE "release"]
    /\ UNCHANGED <<instance, meta_t_lock, meta_p_lock, calls, constructed,
                   returned, notSingletonVars>>

\* self.__instance = super().__call__(*args, **kwargs): __new__ and __init__
\* of the class make a new object
super__call__(t) ==
    /\ spc[t] = "construct"
    /\ instance' = Len(constructed) + 1
    /\ constructed' = Append(constructed, Len(constructed) + 1)
    /\ spc' = [spc EXCEPT ![t] = "release"]
    /\ UNCHANGED <<meta_t_lock, meta_p_lock, calls, returned, notSingletonVars>>

\* super().__call__ raises (an __init__ that fails): nothing is assigned, the
\* with statement releases both locks and the error leaves the call
super__call__raises(t) ==
    /\ spc[t] = "construct"
    /\ instance = NOTHING
    /\ meta_p_lock' = NOTHING
    /\ meta_t_lock' = NOTHING
    /\ calls' = [calls EXCEPT ![t] = calls[t] + 1]
    /\ spc' = [spc EXCEPT ![t] = AfterCall(t)]
    /\ UNCHANGED <<instance, constructed, returned, notSingletonVars>>

\* the with statement is left: __p_lock is released, then __t_lock
release_meta_locks(t) ==
    /\ spc[t] = "release"
    /\ meta_p_lock' = NOTHING
    /\ meta_t_lock' = NOTHING
    /\ spc' = [spc EXCEPT ![t] = "return"]
    /\ UNCHANGED <<instance, calls, constructed, returned, notSingletonVars>>

\* return self.__instance
return_instance(t) ==
    /\ spc[t] = "return"
    /\ returned' = Append(returned, instance)
    /\ calls' = [calls EXCEPT ![t] = calls[t] + 1]
    /\ spc' = [spc EXCEPT ![t] = AfterCall(t)]
    /\ UNCHANGED <<instance, meta_t_lock, meta_p_lock, constructed,
                   notSingletonVars>>

NextSingleton ==
    \/ \E t \in Callers : first_check(t)
    \/ \E t \in Callers : acquire_meta_t_lock(t)
    \/ \E t \in Callers : acquire_meta_p_lock(t)
    \/ \E t \in Callers : second_check(t)
    \/ \E t \in Callers : super__call__(t)
    \/ \E t \in Callers : super__call__raises(t)
    \/ \E t \in Callers : release_meta_locks(t)
    \/ \E t \in Callers : return_instance(t)

SpecSingleton == Init /\ [][NextSingleton]_vars

\* ---------------------------------------------------------------------------
\* The state machine of the registrations in a GeneralRegistry
\* ---------------------------------------------------------------------------

notRegistryVars == <<list, parent, engineVars, pc, trace, result, op, hookVars,
                     countVars, singletonVars, scopedVars>>

\* a registry, or what a call has made of it: raised is the type of the
\* exception that left the call, or "None"
RegState(d, st, exc) == [dict |-> d, strict |-> st, raised |-> exc]

\* parse_strict__: the strict setting of the registry if the argument is
\* MISSING, else the argument
GeneralRegistry_parse_strict__(r, strict) ==
    IF strict = "MISSING" THEN r.strict ELSE strict = "True"

\* register__, as a variant that stores the item before it tests the key
GeneralRegistry_register__storing(r, cls, key, strict) ==
    IF key \in DOMAIN r.dict /\ GeneralRegistry_parse_strict__(r, strict)
    THEN RegState(DictSet(r.dict, key, cls), r.strict, "ValueError")
    ELSE RegState(DictSet(r.dict, key, cls), r.strict, "None")

\* register__ with a key that is given: ValueError if the key is there and
\* strict holds, else self[key] = cls
GeneralRegistry_register__(r, cls, key, strict) ==
    IF key \in DOMAIN r.dict /\ GeneralRegistry_parse_strict__(r, strict)
    THEN RegState(r.dict, r.strict, "ValueError")
    ELSE RegState(DictSet(r.dict, key, cls), r.strict, "None")

\* __call__ with _cls given: DecoratorCall applies the decorator to _cls at
\* once, and the decorator calls register__
GeneralRegistry__call__(r, cls, key, strict) ==
    GeneralRegistry_register__(r, cls, key, strict)

\* the strict argument as register_multi passes it on, after parse_strict__
StrictArg(b) == IF b THEN "True" ELSE "False"

\* for key in keys: self(_cls=cls, key=key, strict=strict), from the i-th key
\* on; an exception ends the loop
RECURSIVE register_multi_loop(_, _, _, _, _)
register_multi_loop(r, keys, i, cls, strict) ==
    IF i > Len(keys) \/ r.raised # "None" THEN r
    ELSE register_multi_loop(GeneralRegistry__call__(r, cls, keys[i], strict),
                             keys, i + 1, cls, strict)

\* register_multi with _cls given
GeneralRegistry_register_multi(r, keys, cls, strict) ==
    register_multi_loop(RegState(r.dict, r.strict, "None"), keys, 1, cls,
                        StrictArg(GeneralRegistry_parse_strict__(r, strict)))

\* what a call leaves: the registry, and the record of the call.  One call
\* is followed, on a registry with any contents.
RegistryStep(name, keys, cls, strict, r) ==
    /\ registered = NoCall
    /\ registry' = [dict |-> r.dict, strict |-> r.strict]
    /\ registered' = [name |-> name, keys |-> keys, cls |-> cls,
                      strict |-> strict, raised |-> r.raised,
                      prev |-> registry.dict]
    /\ UNCHANGED notRegistryVars

\* registry(cls, key=key, strict=strict)
Registry__call__(cls, key, strict) ==
    RegistryStep("__call__", <<key>>, cls, strict,
                 GeneralRegistry__call__(registry, cls, key, strict))

\* registry.register_multi(keys, _cls=cls, strict=strict)
Registry_register_multi(keys, cls, strict) ==
    RegistryStep("register_multi", keys, cls, strict,
                 GeneralRegistry_register_multi(registry, keys, cls, strict))

\* GeneralRegistry(namespace, strict=...) is made with either setting, and
\* earlier registrations have left any items under any keys
InitRegistry ==
    /\ list = [c \in Containers |-> <<>>]
    /\ parent = [x \in Handlers \cup WrapperIds |-> NOTHING]
    /\ EngineInit
    /\ RunInit
    /\ op = NoOp
    /\ HooksInit
    /\ CountInit
    /\ SingletonInit
    /\ \E st \in BOOLEAN, d \in Dicts(RegKeys, RegItems) :
          registry = [dict |-> d, strict |-> st]
    /\ registered = NoCall
    /\ ScopedInit

NextRegistry ==
    \/ \E cls \in RegItems, key \in RegKeys, strict \in StrictInputs :
          Registry__call__(cls, key, strict)
    \/ \E keys \in KeyLists, cls \in RegItems, strict \in StrictInputs :
          Registry_register_multi(keys, cls, strict)

SpecRegistry == InitRegistry /\ [][NextRegistry]_vars

\* ---------------------------------------------------------------------------
\* The state machine of a with statement over assign__ or restore__
\* ---------------------------------------------------------------------------

notScopedVars == <<list, parent, engineVars, pc, trace, result, op, hookVars,
                   countVars, singletonVars, registryVars>>

\* hasattr(obj, attr): getattr does not raise.  Base.__getattr__ returns
\* NOTHING for every name that normal lookup does not find, so that on a Base
\* object no getattr raises; on another object it is the lookup in __dict__.
hasattr(o, attr) == o.base \/ attr \in DOMAIN o.dict

\* getattr(obj, attr, NOTHING)
getattr(o, attr) == IF attr \in DOMAIN o.dict THEN o.dict[attr] ELSE NOTHING

\* setattr(obj, attr, v)
setattr(o, attr, v) == [o EXCEPT !.dict = DictSet(o.dict, attr, v)]

\* delattr(obj, attr) of an attribute that hasattr has found: Base.__delattr__
\* deletes it if it is in __dict__ and swallows the AttributeError if not
delattr(o, attr) == [o EXCEPT !.dict = DictDel(o.dict, attr)]

\* ScopedAttrRestore.__enter__: prev_value_dict, with the value of every
\* attribute of attrs that hasattr finds
ScopedAttrRestore__enter__(o, attrs) ==
    [attr \in {a \in attrs : hasattr(o, a)} |-> getattr(o, attr)]

\* ScopedAttrRestore.__exit__: for attr in self.attrs, from the attribute
\* attr on.  The attributes are taken in the order of their numbers.
RECURSIVE ScopedAttrRestore__exit__(_, _, _, _)
ScopedAttrRestore__exit__(o, attrs, prev_value_dict, attr) ==
    IF attr > NumAttrs THEN o
    ELSE IF attr \notin attrs
    THEN ScopedAttrRestore__exit__(o, attrs, prev_value_dict, attr + 1)
    ELSE IF attr \in DOMAIN prev_value_dict
    THEN ScopedAttrRestore__exit__(setattr(o, attr, prev_value_dict[attr]),
                                   attrs, prev_value_dict, attr + 1)
    ELSE IF hasattr(o, attr)
    THEN ScopedAttrRestore__exit__(delattr(o, attr), attrs, prev_value_dict,
                                   attr + 1)
    ELSE ScopedAttrRestore__exit__(o, attrs, prev_value_dict, attr + 1)

\* ScopedAttrAssign.__enter__, after the backup: for attr, value in
\* self.attr_assign.items(): setattr(self.obj, attr, value)
RECURSIVE ScopedAttrAssign__enter__(_, _, _)
ScopedAttrAssign__enter__(o, attr_assign, attr) ==
    IF attr > NumAttrs THEN o
    ELSE IF attr \in DOMAIN attr_assign
    THEN ScopedAttrAssign__enter__(setattr(o, attr, attr_assign[attr]),
                                   attr_assign, attr + 1)
    ELSE ScopedAttrAssign__enter__(o, attr_assign, attr + 1)

\* with obj.restore__(*attrs): the with statement is entered
restore__(attrs) ==
    /\ scope.state = "out"
    /\ scope' = [state |-> "in", kind |-> "restore", attrs |-> attrs,
                 attr_assign |-> <<>>,
                 prev_value_dict |-> ScopedAttrRestore__enter__(obj, attrs),
                 entry |-> obj.dict, steps |-> 0, exc |-> "None"]
    /\ UNCHANGED <<obj, notScopedVars>>

\* with obj.assign__(**attr_assign): the with statement is entered
assign__(attr_assign) ==
    /\ scope.state = "out"
    /\ scope' = [state |-> "in", kind |-> "assign",
                 attrs |-> DOMAIN attr_assign, attr_assign |-> attr_assign,
                 prev_value_dict |->
                     ScopedAttrRestore__enter__(obj, DOMAIN attr_assign),
                 entry |-> obj.dict, steps |-> 0, exc |-> "None"]
    /\ obj' = ScopedAttrAssign__enter__(obj, attr_assign, 1)
    /\ UNCHANGED notScopedVars

\* obj.attr = v in the body of the with statement
body_setattr(attr, v) ==
    /\ scope.state = "in"
    /\ scope.steps < MaxBodySteps
    /\ obj' = setattr(obj, attr, v)
    /\ scope' = [scope EXCEPT !.steps = scope.steps + 1]
    /\ UNCHANGED notScopedVars

\* del obj.attr in the body of the with statement
body_delattr(attr) ==
    /\ scope.state = "in"
    /\ scope.steps < MaxBodySteps
    /\ attr \in DOMAIN obj.dict
    /\ obj' = delattr(obj, attr)
    /\ scope' = [scope EXCEPT !.steps = scope.steps + 1]
    /\ UNCHANGED notScopedVars

\* the body ends, normally or with an exception: __exit__ restores and
\* returns None, so that the exception goes on
scope_exit(exc) ==
    /\ scope.state = "in"
    /\ obj' = ScopedAttrRestore__exit__(obj, scope.attrs,
                                        scope.prev_value_dict, 1)
    /\ scope' = [scope EXCEPT !.state = "exited", !.exc = exc]
    /\ UNCHANGED notScopedVars

\* the object is a Base object or an object of another ScopedAttr class, and
\* it has any attributes
InitScoped ==
    /\ list = [c \in Containers |-> <<>>]
    /\ parent = [x \in Handlers \cup WrapperIds |-> NOTHING]
    /\ EngineInit
    /\ RunInit
    /\ op = NoOp
    /\ HooksInit
    /\ CountInit
    /\ SingletonInit
    /\ RegistryInit
    /\ \E b \in BOOLEAN, d \in Dicts(Attrs, Values) :
          obj = [base |-> b, dict |-> d]
    /\ scope = NoScope

NextScoped ==
    \/ \E attrs \in SUBSET Attrs \ {{}} : restore__(attrs)
    \/ \E attr_assign \in Dicts(Attrs, Values) \ {<<>>} : assign__(attr_assign)
    \/ \E attr \in Attrs, v \in Values : body_setattr(attr, v)
    \/ \E attr \in Attrs : body_delattr(attr)
    \/ \E exc \in {"None", "Error"} : scope_exit(exc)

SpecScoped == InitScoped /\ [][NextScoped]_vars

\* ---------------------------------------------------------------------------
\* Vocabulary of the properties
\* ---------------------------------------------------------------------------

\* __call__ has run and returned or raised
Done == pc = "done"

\* event e belongs to node n: its handle, or a phase of a wrapper around it
IsEventOf(e, n) == (e.ev = "handle" /\ e.who = n) \/ e.of = n

\* the events of node n, in the order of the run
EventsOf(n) == SelectSeq(trace, LAMBDA e : IsEventOf(e, n))

InTrace(e) == \E i \in DOMAIN trace : trace[i] = e

\* the position of event e in the run
Pos(e) == CHOOSE i \in DOMAIN trace : trace[i] = e

\* the wrapper chain [W1..Wn] of node n
Chain(n) == wrappers[n].list

\* before(W1), ..., before(Wk)
Befores(n, k) == [i \in 1 .. k |-> EvBefore(Chain(n)[i], n)]

\* after(Wk), ..., after(W1) on the normal path
Afters(n, k) == [i \in 1 .. k |-> EvAfter(Chain(n)[k + 1 - i], n)]

\* after(Wk), ..., after(W1) on the error path, each receiving e
AftersErr(n, k, e) == [i \in 1 .. k |-> EvAfterErr(Chain(n)[k + 1 - i], n, e)]

\* the node that owns wrapper w
Owner(w) == 0 - parent[w]

RECURSIVE GatesOpenTo(_)
\* n is the called node, or below it with the gate of every node between
\* them matching
GatesOpenTo(n) ==
    IF n = called THEN TRUE
    ELSE IF parent[n] = NOTHING THEN FALSE
    ELSE is_exec(exec_ranks[parent[n]]) /\ GatesOpenTo(parent[n])

\* every wrapper passes on what is thrown into it
AllReraise == \A w \in WrapperIds : yieldExcept[w] = "reraise"

\* no wrapper phase raises or yields STOP
WrappersPlain ==
    \A w \in WrapperIds :
        yieldBefore[w] = "yield" /\ yieldAfter[w] = "finish" /\ yieldExcept[w] = "reraise"

\* leaf b raises `kind` and is the only part of the pipeline that deviates:
\* the other leaves return, the wrappers are plain, every gate matches
OnlyRaiser(b, kind) ==
    /\ b \in Leaves /\ InTree(b) /\ handleBody[b] = kind
    /\ \A l \in Leaves \ {b} : handleBody[l] = "ok"
    /\ WrappersPlain
    /\ \A h \in Handlers : is_exec(exec_ranks[h])

\* the children of the container of x that come after x
LaterSiblings(x) ==
    LET sib == list[parent[x]] IN
    {sib[j] : j \in {j \in DOMAIN sib : \E i \in DOMAIN sib : i < j /\ sib[i] = x}}

\* the child of the container of x that comes next after x, if there is one
NextSibling(x) ==
    LET sib == list[parent[x]] IN
    {sib[j] : j \in {j \in DOMAIN sib : j > 1 /\ sib[j - 1] = x}}

\* some event of c comes after handle(b)
RunsAfter(b, c) ==
    \E i, j \in DOMAIN trace : i < j /\ trace[i] = EvHandle(b) /\ IsEventOf(trace[j], c)

\* ---------------------------------------------------------------------------
\* Properties
\* ---------------------------------------------------------------------------

\* C1: for a node with a non-empty wrapper chain [W1..Wn] whose gate matches,
\* when no phase and no handle raises or yields STOP, the events of the node
\* in one __call__ are exactly before(W1), ..., before(Wn), handle(node),
\* after(Wn), ..., after(W1), each once.
C1_ChainOrder ==
    (Done /\ WrappersPlain /\ \A l \in Leaves : handleBody[l] = "ok") =>
        \A n \in Handlers :
            (GatesOpenTo(n) /\ is_exec(exec_ranks[n]) /\ Len(Chain(n)) > 0) =>
                EventsOf(n) = Befores(n, Len(Chain(n))) \o <<EvHandle(n)>>
                                  \o Afters(n, Len(Chain(n)))

\* a nested node with a chain of at least two wrappers has run
C1_Witness ==
    /\ Done /\ WrappersPlain /\ result = NoExc
    /\ \A l \in Leaves : handleBody[l] = "ok"
    /\ \E n \in Handlers :
          /\ n # called /\ GatesOpenTo(n) /\ is_exec(exec_ranks[n])
          /\ Len(Chain(n)) >= 2
          /\ Len(EventsOf(n)) = 2 * Len(Chain(n)) + 1

\* the case of C2: the called container A has plain wrappers, at least two
\* children, and its first child is an unwrapped leaf that raises sig
C2_Case(A, sig) ==
    /\ A \in Containers /\ called = A /\ is_exec(exec_ranks[A])
    /\ Len(Chain(A)) >= 1
    /\ \A i \in DOMAIN Chain(A) :
          /\ yieldBefore[Chain(A)[i]] = "yield"
          /\ yieldAfter[Chain(A)[i]] = "finish"
          /\ yieldExcept[Chain(A)[i]] = "reraise"
    /\ Len(list[A]) >= 2
    /\ list[A][1] \in Leaves
    /\ wrappers[list[A][1]].nothing
    /\ is_exec(exec_ranks[list[A][1]])
    /\ handleBody[list[A][1]] = sig

\* C2: when the first child h1 of a wrapped container A raises Break, the
\* after-phases of A's wrappers receive the Break on the error path, h2 does
\* not run and A.__call__ returns; when h1 raises Continue the after-phases
\* run on the normal path only, h2 does not run and A.__call__ returns.
C2_BreakContinueAndWrapper ==
    Done =>
        \A A \in Containers :
            /\ C2_Case(A, "Break") =>
                  /\ result = NoExc
                  /\ trace = Befores(A, Len(Chain(A)))
                                \o <<EvHandle(A), EvHandle(list[A][1])>>
                                \o AftersErr(A, Len(Chain(A)),
                                             Raise("Break", "handle", list[A][1]))
            /\ C2_Case(A, "Continue") =>
                  /\ result = NoExc
                  /\ trace = Befores(A, Len(Chain(A)))
                                \o <<EvHandle(A), EvHandle(list[A][1])>>
                                \o Afters(A, Len(Chain(A)))

\* the Break of h1 was thrown into the wrapper of A
C2_Witness ==
    /\ Done /\ C2_Case(called, "Break")
    /\ \E i \in DOMAIN trace :
          /\ trace[i].path = "error" /\ trace[i].of = called
          /\ trace[i].exc.type = "Break"

\* C3: when a child b of container B raises Continue, only the children of B
\* after b are skipped: B.__call__ returns to its parent A, which runs the
\* child that follows B (A = [B = [b1, b2], C], b1 raises Continue: b1 and C
\* run, b2 does not).  The Continue is thrown into the wrappers of b only.
C3_ContinueScope ==
    (Done /\ called \in Containers) =>
        \A b \in Leaves :
            (OnlyRaiser(b, "Continue") /\ parent[b] # called) =>
                /\ InTrace(EvHandle(b))
                /\ \A x \in LaterSiblings(b) : EventsOf(x) = <<>>
                /\ \A c \in NextSibling(parent[b]) : RunsAfter(b, c)
                /\ \A i \in DOMAIN trace : trace[i].path = "error" => trace[i].of = b
                /\ result = NoExc

\* A = [B = [b1, b2], C] with b1 raising Continue has run
C3_Witness ==
    /\ Done /\ called = 1
    /\ \E B \in Containers, b1, b2, C \in Leaves :
          /\ list[1] = <<B, C>> /\ list[B] = <<b1, b2>>
          /\ OnlyRaiser(b1, "Continue")
          /\ trace = <<EvHandle(1), EvHandle(B), EvHandle(b1), EvHandle(C)>>

\* C4: a Break raised by the handle of leaf b is absorbed by the container B
\* of b and by no other: the children of B after b do not run, B.__call__
\* returns, the parent of B runs its next child, and the Break is thrown into
\* the wrappers of b and of B only.
C4_BreakScope ==
    (Done /\ called \in Containers) =>
        \A b \in Leaves :
            OnlyRaiser(b, "Break") =>
                /\ InTrace(EvHandle(b))
                /\ \A x \in LaterSiblings(b) : EventsOf(x) = <<>>
                /\ parent[b] # called =>
                      \A c \in NextSibling(parent[b]) : RunsAfter(b, c)
                /\ \A i \in DOMAIN trace :
                      trace[i].path = "error" => trace[i].of \in {b, parent[b]}
                /\ result = NoExc

\* a Break was raised two levels below the called container, in front of a
\* sibling of b and a sibling of B
C4_Witness ==
    /\ Done /\ called = 1
    /\ \E b \in Leaves :
          /\ OnlyRaiser(b, "Break")
          /\ parent[b] # called
          /\ LaterSiblings(b) # {}
          /\ \E c \in NextSibling(parent[b]) : RunsAfter(b, c)

\* C5: a Terminate raised without raise_handler by the handle of leaf b
\* reaches the caller with raise_handler = b, whatever the number of
\* containers around b; the wrappers of b see it before it is set, the
\* wrappers of every enclosing node see it already set to b.
C5_TerminateOrigin ==
    (Done /\ AllReraise) =>
        \A b \in Leaves :
            (handleBody[b] = "Terminate" /\ InTrace(EvHandle(b))) =>
                /\ result = [Raise("Terminate", "handle", b) EXCEPT !.origin = b]
                /\ \A i \in DOMAIN trace :
                      (i > Pos(EvHandle(b)) /\ trace[i].path = "error") =>
                          trace[i].exc = IF trace[i].of = b
                                         THEN Raise("Terminate", "handle", b)
                                         ELSE result

\* a leaf inside three containers has raised Terminate
C5_Witness ==
    /\ Done /\ AllReraise /\ result.type = "Terminate"
    /\ \E b \in Leaves :
          /\ handleBody[b] = "Terminate" /\ InTrace(EvHandle(b))
          /\ parent[b] # NOTHING /\ parent[parent[b]] # NOTHING
          /\ parent[parent[parent[b]]] = called

\* C6: a raw error raised by the handle of leaf b becomes a HandlerException
\* whose exception_handler is b; every enclosing node raises it again with
\* handler and cause unchanged, so the caller and the wrappers of every
\* enclosing node see HandlerException(b, error).
C6_FailureOrigin ==
    (Done /\ AllReraise) =>
        \A b \in Leaves :
            (handleBody[b] = "Error" /\ InTrace(EvHandle(b))) =>
                /\ result = HandlerException(b, Raise("Error", "handle", b))
                /\ \A i \in DOMAIN trace :
                      (i > Pos(EvHandle(b)) /\ trace[i].path = "error") =>
                          trace[i].exc = IF trace[i].of = b
                                         THEN Raise("Error", "handle", b)
                                         ELSE result

\* a leaf two levels below the called container has raised a raw error
C6_Witness ==
    /\ Done /\ AllReraise /\ result.type = "HandlerException"
    /\ \E b \in Leaves :
          /\ handleBody[b] = "Error" /\ InTrace(EvHandle(b))
          /\ parent[b] # NOTHING /\ parent[parent[b]] = called
          /\ result.origin = b

\* wrapper w has raised a raw error in a phase driven through call__
WrapperFailedIn(w, phase) ==
    \/ /\ phase = "before" /\ yieldBefore[w] = "Error"
       /\ InTrace(EvBefore(w, Owner(w)))
    \/ /\ phase = "after" /\ yieldAfter[w] = "Error"
       /\ InTrace(EvAfter(w, Owner(w)))

\* C7: a HandlerWrapperException of a wrapper of node N does not leave
\* N.__call__: the caller never sees one, the wrappers of a node are thrown
\* only those of wrappers of the same node, and it leaves N.__call__ as
\* HandlerException(N, the error the wrapper raised).
C7_WrapperFailureDemoted ==
    Done =>
        /\ result.type # "HandlerWrapperException"
        /\ \A i \in DOMAIN trace :
              (trace[i].path = "error" /\ trace[i].exc.type = "HandlerWrapperException") =>
                  Owner(trace[i].exc.origin) = trace[i].of
        /\ AllReraise =>
              \A w \in WrapperIds, phase \in {"before", "after"} :
                  WrapperFailedIn(w, phase) =>
                      result = HandlerException(Owner(w), Raise("Error", phase, w))

\* a wrapper of a nested node has raised in its before-phase
C7_Witness ==
    /\ Done /\ AllReraise
    /\ \E w \in WrapperIds :
          /\ WrapperFailedIn(w, "before")
          /\ Owner(w) # called
          /\ result.type = "HandlerException" /\ result.origin = Owner(w)

\* C8: when the called node is a container, whatever the handle methods of
\* its descendants raise, __call__ returns or raises HandlerException or
\* HandlerTerminate: no Continue and no Break reaches the caller.  (The
\* wrappers of the called container itself raise no Continue.)
C8_RootOutcomes ==
    (/\ Done /\ called \in Containers
     /\ \A i \in DOMAIN Chain(called) :
           /\ yieldBefore[Chain(called)[i]] # "Continue"
           /\ yieldAfter[Chain(called)[i]] # "Continue"
           /\ yieldExcept[Chain(called)[i]] # "Continue") =>
        result.type \in {"None", "HandlerException", "Terminate"}

\* a child of the called container has raised Break, and it returned
C8_Witness ==
    /\ Done /\ called \in Containers /\ result = NoExc
    /\ \E b \in Leaves :
          /\ handleBody[b] = "Break" /\ InTrace(EvHandle(b))
          /\ parent[b] = called

\* the before-phase of Wk yields STOP, those of W1..Wk-1 yield, and the
\* after-phases of W1..Wk return
StopsAt(n, k) ==
    /\ k \in DOMAIN Chain(n)
    /\ yieldBefore[Chain(n)[k]] = "stop"
    /\ \A j \in 1 .. (k - 1) : yieldBefore[Chain(n)[j]] = "yield"
    /\ \A j \in 1 .. k : yieldAfter[Chain(n)[j]] = "finish"

\* C9: if the before-phase of Wk in the chain [W1..Wn] of node N yields STOP,
\* the events of N are before(W1), ..., before(Wk), after(Wk), ..., after(W1)
\* on the normal path: handle of N is not invoked (so no child of N runs),
\* Wk+1..Wn are not started, and N.__call__ returns.
C9_StopSkipsHandle ==
    Done =>
        \A n \in Handlers, k \in 1 .. NumWrappers :
            (StopsAt(n, k) /\ InTrace(EvBefore(Chain(n)[1], n))) =>
                /\ EventsOf(n) = Befores(n, k) \o Afters(n, k)
                /\ n \in Containers =>
                      \A i \in DOMAIN list[n] : EventsOf(list[n][i]) = <<>>
                /\ n = called => result = NoExc

\* the second of three wrappers has yielded STOP
C9_Witness ==
    /\ Done /\ result = NoExc
    /\ Len(Chain(called)) = 3
    /\ StopsAt(called, 2)
    /\ Len(trace) = 4

\* the scopes of node n whose before-phase reached its yield
ScopesOpened(n) ==
    SelectSeq(trace, LAMBDA e : e.ev = "before" /\ e.of = n
                                   /\ yieldBefore[e.who] \in {"yield", "stop"})

\* the after-phases of the scopes of node n that were run, on either path
ScopesClosed(n) == SelectSeq(trace, LAMBDA e : e.ev = "after" /\ e.of = n)

\* C10: after any run, for every node the number of scopes whose
\* before-phase completed equals the number of scopes whose after-phase was
\* run, and no after-phase was run more than once.
C10_ScopesBalanced ==
    Done =>
        /\ \A n \in Handlers : Len(ScopesOpened(n)) = Len(ScopesClosed(n))
        /\ \A w \in WrapperIds :
              Len(SelectSeq(trace, LAMBDA e : e.ev = "after" /\ e.who = w)) <= 1

\* the before-phase of an inner wrapper raised after an outer scope was
\* opened, and the outer scope was closed on the error path
C10_Witness ==
    /\ Done
    /\ \E n \in Handlers :
          /\ Len(Chain(n)) >= 2
          /\ yieldBefore[Chain(n)[2]] = "Error"
          /\ Len(ScopesOpened(n)) = 1
          /\ \E i \in DOMAIN trace :
                trace[i].path = "error" /\ trace[i].who = Chain(n)[1]

\* the events of node n that follow its handle
AfterHandle(n) ==
    SubSeq(EventsOf(n), Len(Chain(n)) + 2, Len(EventsOf(n)))

\* every wrapper of node n passes on what is thrown into it
ChainReraises(n) ==
    \A i \in DOMAIN Chain(n) : yieldExcept[Chain(n)[i]] = "reraise"

\* C11: when the handle of a leaf raises inside a chain [W1..Wn] whose
\* before-phases all completed, the after-phase of every open scope is run
\* exactly once, in the order Wn, ..., W1, right after the handle and before
\* anything else of the run: Wn is thrown the error of the handle, and when
\* the wrappers pass on what they are thrown every one of them is thrown it.
C11_ErrorThrownIntoOpenScopes ==
    Done =>
        \A n \in Leaves :
            (InTrace(EvHandle(n)) /\ handleBody[n] # "ok" /\ Len(Chain(n)) > 0) =>
                /\ SubSeq(EventsOf(n), 1, Len(Chain(n)) + 1)
                      = Befores(n, Len(Chain(n))) \o <<EvHandle(n)>>
                /\ Len(AfterHandle(n)) = Len(Chain(n))
                /\ \A i \in 1 .. Len(Chain(n)) :
                      /\ AfterHandle(n)[i].ev = "after"
                      /\ AfterHandle(n)[i].who = Chain(n)[Len(Chain(n)) + 1 - i]
                      /\ trace[Pos(EvHandle(n)) + i] = AfterHandle(n)[i]
                /\ AfterHandle(n)[1]
                      = EvAfterErr(Chain(n)[Len(Chain(n))], n,
                                   Raise(handleBody[n], "handle", n))
                /\ ChainReraises(n) =>
                      AfterHandle(n) = AftersErr(n, Len(Chain(n)),
                                                 Raise(handleBody[n], "handle", n))

\* the handle of a nested leaf has raised an error inside a chain of two
\* wrappers, and both were thrown it, the inner one first
C11_Witness ==
    /\ Done
    /\ \E n \in Leaves :
          /\ handleBody[n] = "Error" /\ InTrace(EvHandle(n))
          /\ n # called
          /\ Len(Chain(n)) = 2 /\ ChainReraises(n)
          /\ AfterHandle(n) = AftersErr(n, 2, Raise("Error", "handle", n))

\* the after-phase of wrapper w around node n has raised a raw error, on the
\* normal path or on the error path
AfterPhaseFailed(w, n) ==
    \/ yieldAfter[w] = "Error" /\ InTrace(EvAfter(w, n))
    \/ /\ yieldExcept[w] = "Error"
       /\ \E i \in DOMAIN trace :
             trace[i].ev = "after" /\ trace[i].who = w /\ trace[i].path = "error"

\* C12: a raw error raised by the after-phase of Wk leaves the scope of Wk
\* as HandlerWrapperException(Wk, error) on the normal path and on the error
\* path: the next scope out, Wk-1, is thrown exactly that.
C12_AfterPhaseFailureWrapped ==
    Done =>
        \A n \in Handlers, k \in 2 .. NumWrappers :
            (k <= Len(Chain(n)) /\ AfterPhaseFailed(Chain(n)[k], n)) =>
                InTrace(EvAfterErr(Chain(n)[k - 1], n,
                            HandlerWrapperException(Chain(n)[k],
                                Raise("Error", "after", Chain(n)[k]))))

PlainLeafCalled ==
    /\ Done /\ called \in Leaves
    /\ Len(Chain(called)) = 0
    /\ exec_ranks[called] = ExecRanksPASS

Reparented(X) ==
    /\ op.name \in {"insert", "append"}
    /\ X \in BiLists /\ X # op.c
    /\ op.prevParent[op.x] = X
    /\ Contains(op.prevList[X], op.x)

\* C15 as stated: inserting a child of X into another BiList Y leaves it
\* with parent Y, takes it out of the child sequence of X and logs one
\* warning.
C15_ReparentMoves ==
    \A X \in BiLists :
        Reparented(X) =>
            /\ parent[op.x] = op.c
            /\ ~Contains(list[X], op.x)
            /\ op.warned = 1

\* C15: inserting a child of X into another BiList Y leaves it with parent
\* Y and logs exactly one warning; the child sequence of X is left as it
\* was, so that the item is a child of both.
C15_ReparentKeepsOldEntry ==
    \A X \in BiLists :
        Reparented(X) =>
            /\ parent[op.x] = op.c
            /\ Contains(list[op.c], op.x)
            /\ list[X] = op.prevList[X]
            /\ op.warned = 1

\* an item that was the only child of one BiList was inserted into another
C15_Witness ==
    \E X \in BiLists :
        /\ Reparented(X)
        /\ op.name = "insert"
        /\ op.prevList[X] = <<op.x>>
        /\ op.prevList[op.c] = <<>>

\* the operations that put children in, and those that take children out
AddingOps ==
    {"insert", "append", "extend", "construct", "setitem", "setslice", "set_list__"}

RemovingOps ==
    {"delitem", "delslice", "remove", "pop", "setitem", "setslice", "set_list__"}

C17_VerifiedParent ==
    op.name = "get_verified_parent__" =>
        /\ list = op.prevList
        /\ (op.prevParent[op.x] # NOTHING
              /\ Contains(list[op.prevParent[op.x]], op.x)) =>
                 (op.ret = op.prevParent[op.x] /\ parent = op.prevParent)
        /\ (op.prevParent[op.x] # NOTHING
              /\ ~Contains(list[op.prevParent[op.x]], op.x)) =>
                 /\ op.ret = NOTHING
                 /\ parent = set_parent__(op.prevParent, op.x, NOTHING)
                 /\ BiListItem_get_parent__(BiState(list, parent), op.x) = NOTHING
        /\ op.prevParent[op.x] = NOTHING =>
                 (op.ret = NOTHING /\ parent = op.prevParent)

\* the recorded parent did not hold the item, and the reference was cleared
C17_Witness ==
    /\ op.name = "get_verified_parent__"
    /\ op.prevParent[op.x] # NOTHING
    /\ ~Contains(op.prevList[op.prevParent[op.x]], op.x)
    /\ op.ret = NOTHING
    /\ parent[op.x] = NOTHING

\* no registered plugin raises before its yield
PluginsPlain == \A i \in DOMAIN plugins : pluginBody[plugins[i]] = "yield"

\* the before-phases of the plugins in the order of registration
PluginBefores == [i \in DOMAIN plugins |-> EvPluginBefore(plugins[i])]

\* the after-phases of the plugins in the reverse order
PluginAfters ==
    [i \in DOMAIN plugins |-> EvPluginAfter(plugins[Len(plugins) + 1 - i])]

\* the events of the build that come after build_*(ctx)
AfterBuild ==
    SubSeq(trace, (CHOOSE i \in DOMAIN trace : trace[i] = EvBuild) + 1, Len(trace))

\* C18: a build in which nothing raises runs the before-phase of launch,
\* the before-phase of every registered plugin in the order of
\* registration, build_*(ctx), the after-phase of every plugin in the
\* reverse order and the after-phase of launch, each once.
C18_BuildBracketOrder ==
    (Done /\ buildBody = "ok" /\ PluginsPlain) =>
        /\ result = NoExc
        /\ trace = <<EvLaunchBefore>> \o PluginBefores \o <<EvBuild>>
                       \o PluginAfters \o <<EvLaunchAfter>>

\* C19: when build_*(ctx) raises, the after-phase of every registered
\* plugin, in the reverse order of registration, and then the after-phase of
\* launch are run, each once, and the error of build reaches the caller.
C19_BuildFailureUnwinds ==
    (Done /\ buildBody = "Error" /\ PluginsPlain) =>
        /\ result = Raise("Error", "build", NOTHING)
        /\ AfterBuild = PluginAfters \o <<EvLaunchAfter>>

\* thread t has read the counter
HasRead(t) == cpc[t] \in {"read", "incremented", "p_released", "done"}

\* C20: the values that the threads of all processes have read from Count
\* are different from one another, and they increase in the order of the
\* reads.
C20_IdsDistinctIncreasing ==
    /\ \A t, u \in Threads :
          (t # u /\ HasRead(t) /\ HasRead(u)) => local[t] # local[u]
    /\ \A i, j \in DOMAIN reads : i < j => reads[i] < reads[j]

RECURSIVE Preorder(_)
RECURSIVE PreorderFrom(_, _)
\* the nodes of the subtree of n in preorder: n, then the subtree of every
\* child in the order of the child sequence
Preorder(n) ==
    IF n \in Containers THEN <<n>> \o PreorderFrom(n, 1) ELSE <<n>>

\* the subtrees of the children i, i + 1, ... of container c, one after the
\* other
PreorderFrom(c, i) ==
    IF i > Len(list[c]) THEN <<>>
    ELSE Preorder(list[c][i]) \o PreorderFrom(c, i + 1)

\* the positions in the preorder of the subtree of n of the nodes with id i
Matches(n, i) == {k \in DOMAIN Preorder(n) : id[Preorder(n)[k]] = i}

\* C21: n.get_by_id(i) returns the first node in the preorder of the
\* subtree of n whose id is i, or NOTHING when the subtree has no such node,
\* and logs one duplicate-id warning when more than one node of the subtree
\* has the id i, none otherwise.
C21_GetByIdFirstInPreorder ==
    op.name = "get_by_id" =>
        /\ Matches(op.c, op.x) = {} => op.ret = NOTHING
        /\ Matches(op.c, op.x) # {} =>
              op.ret = Preorder(op.c)[CHOOSE k \in Matches(op.c, op.x) :
                                         \A j \in Matches(op.c, op.x) : k <= j]
        /\ op.warned = IF Cardinality(Matches(op.c, op.x)) > 1 THEN 1 ELSE 0

\* a search has found two nodes with the id, and the one returned is deeper
\* in the tree than the other, which comes later in the preorder
C21_Witness ==
    /\ op.name = "get_by_id"
    /\ op.warned = 1
    /\ op.ret # NOTHING /\ op.ret # op.c /\ parent[op.ret] # op.c
    /\ \E n \in Handlers :
          /\ n # op.ret /\ id[n] = op.x
          /\ parent[n] = op.c

\* the events of CorePluginContainer.build_*_yield before its yield
BeforeYield ==
    SubSeq(trace, 1, (CHOOSE i \in DOMAIN trace : trace[i] = EvYield) - 1)

\* the events of CorePluginContainer.build_*_yield after its yield
AfterYield ==
    SubSeq(trace, (CHOOSE i \in DOMAIN trace : trace[i] = EvYield) + 1, Len(trace))

\* C22: when CorePluginContainer.build_*_yield has been advanced to its
\* yield, the before-phase of every registered plugin has run, once each and
\* in the order of registration.
C22_PluginBeforesAtYield ==
    (op.name = "build_yield" /\ InTrace(EvYield)) => BeforeYield = PluginBefores

\* C23: when CorePluginContainer.build_*_yield is resumed after its yield
\* without an exception, the after-phase of every registered plugin runs,
\* once each and in the reverse order of registration.
C23_PluginAftersOnResume ==
    (op.name = "build_yield" /\ InTrace(EvYield) /\ op.x = NoExc /\ PluginsPlain) =>
        AfterYield = PluginAfters

\* the before-phase of Wk of node n has raised a raw error, the before-phases
\* of W1..Wk-1 having yielded, and W1..Wk-1 pass on what is thrown into them
BeforePhaseFailed(n, k) ==
    /\ k <= Len(Chain(n))
    /\ yieldBefore[Chain(n)[k]] = "Error"
    /\ InTrace(EvBefore(Chain(n)[k], n))
    /\ \A i \in 1 .. (k - 1) :
          /\ yieldBefore[Chain(n)[i]] = "yield"
          /\ yieldExcept[Chain(n)[i]] = "reraise"

\* C24: when the before-phase of Wk raises an error, the events of the node
\* are the before-phases of W1..Wk and then the after-phases of Wk-1, ..., W1
\* on the error path, each thrown the failure of Wk: Wk+1..Wn, the handle
\* of the node and its children are not run, the after-phase of Wk is not
\* run, and __call__ of the node raises HandlerException(node, error), which
\* is what the caller of the run gets when the node is the called one or
\* when every wrapper passes on what is thrown into it.
C24_BeforePhaseFailureUnwinds ==
    Done =>
        \A n \in Handlers, k \in 1 .. NumWrappers :
            BeforePhaseFailed(n, k) =>
                /\ EventsOf(n) =
                      Befores(n, k) \o
                      AftersErr(n, k - 1,
                                HandlerWrapperException(Chain(n)[k],
                                    Raise("Error", "before", Chain(n)[k])))
                /\ \A i \in DOMAIN composite_iterable__(n) :
                      EventsOf(composite_iterable__(n)[i]) = <<>>
                /\ (n = called \/ AllReraise) =>
                      result = HandlerException(n, Raise("Error", "before", Chain(n)[k]))

\* the before-phase of the second wrapper of a chain of three has raised
C24_Witness ==
    /\ Done
    /\ BeforePhaseFailed(called, 2)
    /\ Len(Chain(called)) = 3
    /\ Len(EventsOf(called)) = 3
    /\ result.type = "HandlerException"

\* event e is one in which a handle or a wrapper phase raises
\* HandlerTerminate or an error, so that __call__ of the node raises
\* HandlerTerminate or HandlerException
RaisesTerminateOrFailure(e) ==
    \/ /\ e.ev = "handle" /\ e.who \in Leaves
       /\ handleBody[e.who] \in {"Terminate", "Error"}
    \/ e.ev = "before" /\ yieldBefore[e.who] = "Error"
    \/ e.ev = "after" /\ e.path = "normal" /\ yieldAfter[e.who] = "Error"

\* C25: in one run a container runs its children in the order of its child
\* sequence, each at most once; and when no wrapper converts or swallows
\* what is thrown into it, no handle is started after the point where a
\* handle or a wrapper phase has made a __call__ raise HandlerTerminate or
\* HandlerException, and that exception reaches the caller.
C25_ChildrenInOrderUntilFailure ==
    Done =>
        /\ \A n \in Handlers :
              /\ Len(SelectSeq(trace, LAMBDA e : e = EvHandle(n))) <= 1
              /\ Len(SelectSeq(trace, LAMBDA e : e.ev = "before" /\ e.of = n
                                                   /\ e.who = Chain(n)[1])) <= 1
        /\ \A c \in Containers :
              \A i, j \in DOMAIN list[c] :
                  i < j =>
                      \A p, q \in DOMAIN trace :
                          (IsEventOf(trace[p], list[c][i]) /\ IsEventOf(trace[q], list[c][j]))
                              => p < q
        /\ AllReraise =>
              \A p \in DOMAIN trace :
                  RaisesTerminateOrFailure(trace[p]) =>
                      /\ \A q \in DOMAIN trace : q > p => trace[q].ev # "handle"
                      /\ result.type \in {"Terminate", "HandlerException"}

\* the second child of a nested container has raised HandlerTerminate after
\* the first one has run, and a third one was not run
C25_Witness ==
    /\ Done /\ AllReraise
    /\ result.type = "Terminate"
    /\ \E b \in Leaves :
          /\ handleBody[b] = "Terminate" /\ InTrace(EvHandle(b))
          /\ parent[b] # NOTHING /\ parent[b] # called
          /\ Len(list[parent[b]]) = 3
          /\ list[parent[b]][2] = b
          /\ InTrace(EvHandle(list[parent[b]][1]))
          /\ EventsOf(list[parent[b]][3]) = <<>>

\* ---------------------------------------------------------------------------
\* C26, C27: child sequences and parent references after API operations
\* ---------------------------------------------------------------------------

\* every node of a child sequence l[c] has c as its recorded parent
ChildrenHaveParent(l, p) ==
    \A c \in BiLists : \A i \in DOMAIN l[c] : p[l[c][i]] = c

\* no node occurs twice in the child sequences
OccursOnce(l) ==
    \A c, d \in BiLists : \A i \in DOMAIN l[c], j \in DOMAIN l[d] :
        (c # d \/ i # j) => l[c][i] # l[d][j]

\* node x occurs in some child sequence
Occurs(l, x) == \E c \in BiLists : x \in Items(l[c])

\* every recorded parent holds the node
NoStaleParent(l, p) ==
    \A x \in DOMAIN p : p[x] # NOTHING => x \in Items(l[p[x]])

\* the operation that is looked at is one of the container/node API, not a
\* change of the list that get_list__ hands out
ApiOp == op # NoOp /\ op.name # "get_list__"

C27_RecordedParentNeverStale ==
    (ApiOp /\ NoStaleParent(op.prevList, op.prevParent))
        => NoStaleParent(list, parent)

\* ---------------------------------------------------------------------------
\* C30: replace_self__
\* ---------------------------------------------------------------------------

\* the number of places of q that hold x
Occurrences(q, x) == Cardinality({i \in DOMAIN q : q[i] = x})

\* the operation looked at is n.replace_self__(m), with n exactly once in its
\* recorded parent and m without a parent
ReplacesSelf(n, m) ==
    /\ op # NoOp
    /\ op.name = "replace_self__"
    /\ op.x = n
    /\ op.added = {m}
    /\ op.prevParent[n] # NOTHING
    /\ Occurrences(op.prevList[op.prevParent[n]], n) = 1
    /\ op.prevParent[m] = NOTHING

CaughtByWrapper(n, k) ==
    /\ n = called /\ n \in Leaves
    /\ handleBody[n] = "Error" /\ InTrace(EvHandle(n))
    /\ k \in DOMAIN Chain(n)
    /\ yieldExcept[Chain(n)[k]] = "finish"
    /\ \A i \in DOMAIN Chain(n) :
          /\ yieldBefore[Chain(n)[i]] = "yield"
          /\ i > k => yieldExcept[Chain(n)[i]] = "reraise"
          /\ i < k => yieldAfter[Chain(n)[i]] = "finish"

\* C28: when the wrapped handle raises error E and the after-phase of Wk
\* catches E and finishes without raising, the after-phases of W(k-1), ...,
\* W1 run on the normal path and __call__ of the node returns without an
\* exception.
C28_CaughtErrorIsProcessed ==
    Done =>
        \A n \in Handlers, k \in 1 .. NumWrappers :
            CaughtByWrapper(n, k) =>
                /\ result = NoExc
                /\ \A i \in 1 .. (k - 1) : InTrace(EvAfter(Chain(n)[i], n))

\* the HandlerContinue that a wrapper phase raises
ContinueOfWrapper == Raise("Continue", "after", NOTHING)

\* a phase of wrapper w of node B has run and raised HandlerContinue
RaisesContinueIn(w, B) ==
    \/ yieldBefore[w] = "Continue" /\ InTrace(EvBefore(w, B))
    \/ yieldAfter[w] = "Continue" /\ InTrace(EvAfter(w, B))
    \/ /\ yieldExcept[w] = "Continue"
       /\ \E p \in DOMAIN trace :
             trace[p].ev = "after" /\ trace[p].who = w /\ trace[p].path = "error"

\* wrapper Wk of container B, a child of the called container, has raised
\* HandlerContinue; the other wrappers yield, finish and pass on what is
\* thrown into them
ContinueFromOwnWrapper(B, k) ==
    /\ called \in Containers
    /\ B \in Containers /\ B # called /\ parent[B] = called
    /\ k \in DOMAIN Chain(B)
    /\ RaisesContinueIn(Chain(B)[k], B)
    /\ \A w \in WrapperIds \ {Chain(B)[k]} :
          yieldBefore[w] = "yield" /\ yieldAfter[w] = "finish" /\ yieldExcept[w] = "reraise"

\* C29: a HandlerContinue raised by a before- or after-phase of one of
\* container B's own wrappers is not absorbed by B: it is thrown into the
\* wrappers of B outside that one, leaves B.__call__ and is absorbed by the
\* loop of B's parent A, so that the children of A after B are not run and
\* A.__call__ returns without an exception.
C29_ContinueOfOwnWrapperLeavesContainer ==
    Done =>
        \A B \in Containers, k \in 1 .. NumWrappers :
            ContinueFromOwnWrapper(B, k) =>
                /\ result = NoExc
                /\ \A c \in LaterSiblings(B) : EventsOf(c) = <<>>
                /\ \A i \in 1 .. (k - 1) :
                      InTrace(EvAfterErr(Chain(B)[i], B, ContinueOfWrapper))

\* the second wrapper of B has raised HandlerContinue in its after-phase,
\* after the handle of B has run, and B has a later sibling
C29_Witness ==
    /\ Done
    /\ \E B \in Containers :
          /\ ContinueFromOwnWrapper(B, 2)
          /\ yieldAfter[Chain(B)[2]] = "Continue"
          /\ InTrace(EvHandle(B))
          /\ LaterSiblings(B) # {}
          /\ result = NoExc

\* ---------------------------------------------------------------------------
\* C31, C32: insert_before_self__, insert_after_self__, and the operations of
\* a node without a parent
\* ---------------------------------------------------------------------------

\* q is q0 with m put in at index i (counted from 0): one longer, m at i, the
\* items of q0 before and behind it in their order
InsertedAt(q, q0, i, m) ==
    /\ Len(q) = Len(q0) + 1
    /\ q[i + 1] = m
    /\ \A j \in 1 .. i : q[j] = q0[j]
    /\ \A j \in (i + 1) .. Len(q0) : q[j + 1] = q0[j]

\* the operation looked at is n.<name>(m), with n in its recorded parent and
\* m without a parent
InsertsNextToSelf(name, n, m) ==
    /\ op # NoOp
    /\ op.name = name
    /\ op.x = n
    /\ op.added = {m}
    /\ op.prevParent[n] # NOTHING
    /\ Contains(op.prevList[op.prevParent[n]], n)
    /\ op.prevParent[m] = NOTHING

SelfOperation(n) ==
    /\ op # NoOp
    /\ op.name \in {"replace_self__", "insert_before_self__",
                    "insert_after_self__", "remove_self__"}
    /\ op.x = n

\* C32: replace_self__, insert_before_self__, insert_after_self__ and
\* remove_self__ called on a node that has no recorded parent raise nothing and
\* leave every child sequence and every parent reference unchanged.
C32_SelfOperationsWithoutParent ==
    \A n \in Nodes :
        (SelfOperation(n) /\ op.prevParent[n] = NOTHING) =>
            /\ ~op.raised
            /\ list = op.prevList
            /\ parent = op.prevParent

\* a node without a parent was asked to replace itself by a node that is a
\* child of a BiList
C32_Witness ==
    \E n, m \in Nodes :
        /\ SelfOperation(n) /\ op.prevParent[n] = NOTHING
        /\ op.name = "replace_self__"
        /\ op.added = {m}
        /\ n # m
        /\ op.prevParent[m] # NOTHING
        /\ op.warned = 1

\* ---------------------------------------------------------------------------
\* C33: a run leaves the tree as it is
\* ---------------------------------------------------------------------------

\* C33: CoreHandler.__call__ itself never changes the tree: whatever the
\* outcome of a run, every node's child sequence, parent reference, id,
\* exec_ranks and wrapper list are the same after the run as before it (the
\* handle and wrapper bodies of the model change none of them).
C33_RunLeavesTree ==
    [][(pc = "build" /\ pc' = "done") =>
          /\ list' = list
          /\ parent' = parent
          /\ id' = id
          /\ exec_ranks' = exec_ranks
          /\ wrappers' = wrappers]_vars

\* a run of a container with a wrapper and two children has ended with a
\* HandlerException
C33_Witness ==
    /\ Done
    /\ called \in Containers
    /\ Len(list[called]) = 2
    /\ Len(Chain(called)) = 1
    /\ InTrace(EvHandle(list[called][1]))
    /\ result.type = "HandlerException"

\* ---------------------------------------------------------------------------
\* C34, C35: get_by_class and get_by_filter, and the wrappers of a node
\* ---------------------------------------------------------------------------

\* the search looked at is a get_by_class or a get_by_filter
ListSearch == op.name \in {"get_by_class", "get_by_filter"}

\* the nodes that the class or function of the search selects
Selected ==
    IF op.name = "get_by_class" THEN InstancesOf(op.x) ELSE FilterTrue(op.x)

\* C34: get_by_filter and get_by_class test every node of the subtree exactly
\* once, in preorder (a container before its children, the children in the
\* order of the child sequence, a whole subtree before the next sibling), and
\* return the matching nodes in that order.
C34_SearchInPreorder ==
    ListSearch =>
        /\ trace = Preorder(op.c)
        /\ \A n \in Handlers : Occurrences(trace, n) <= 1
        /\ op.ret = SelectSeq(Preorder(op.c), LAMBDA n : n \in Selected)

\* a search from the root has returned a node of a nested container before
\* a later child of the root, and has left out a node that does not match
C34_Witness ==
    /\ ListSearch
    /\ op.c = 1
    /\ Len(op.ret) >= 2
    /\ Len(op.ret) < Len(trace)
    /\ \E i, j \in DOMAIN op.ret :
          /\ i < j
          /\ parent[op.ret[i]] \notin {NOTHING, 1}
          /\ parent[op.ret[j]] = 1

\* the nodes that the search looked at has returned
Returned ==
    IF op.name = "get_by_id" THEN {op.ret} \ {NOTHING} ELSE Items(op.ret)

\* C35: tree search (get_by_id, get_by_class, get_by_filter) descends only
\* through child sequences: the wrappers of the wrapper lists of the nodes,
\* none of which is a child of a container, are never tested and never
\* returned, and neither are the containers that hold them.
C35_SearchSkipsWrappers ==
    (op.name = "get_by_id" \/ ListSearch) =>
        \A n \in Items(trace) \cup Returned :
            /\ n \in Handlers
            /\ InTree(n)

\* a search for all CoreHandlerContainer objects from the root, which has a
\* wrapper and a child with a wrapper, has returned nodes
C35_Witness ==
    /\ op.name = "get_by_class" /\ op.x = "CoreHandlerContainer"
    /\ op.c = 1
    /\ Len(Chain(1)) >= 1
    /\ \E n \in Handlers : parent[n] = 1 /\ Len(Chain(n)) >= 1
    /\ Len(op.ret) >= 1

\* ---------------------------------------------------------------------------
\* C36
\* ---------------------------------------------------------------------------

\* C36: for a class created with the singleton metaclass, any number of
\* constructor calls interleaved across threads construct the instance at
\* most once, and every call returns that same instance
C36_SingletonConstructedOnce ==
    /\ Len(constructed) <= 1
    /\ \A i \in 1 .. Len(returned) :
          /\ Len(constructed) = 1
          /\ returned[i] = constructed[1]
          /\ returned[i] = instance

\* a thread that passed the first test while there was no instance holds
\* both locks and finds the instance that another thread has made and
\* returned in the meantime
C36_Witness ==
    /\ \E t \in Callers : spc[t] = "locked"
    /\ instance # NOTHING
    /\ Len(constructed) = 1
    /\ Len(returned) >= 1

\* ---------------------------------------------------------------------------
\* C37
\* ---------------------------------------------------------------------------

\* the strict mode of the last registration call
StrictMode ==
    IF registered.strict = "MISSING" THEN registry.strict
    ELSE registered.strict = "True"

\* the keys of the last call before its i-th key
KeysBefore(i) == {registered.keys[j] : j \in 1 .. (i - 1)}

\* the dict that was found, with the new item under the keys of K
PrevWith(K) ==
    [k \in DOMAIN registered.prev \cup K |->
        IF k \in K THEN registered.cls ELSE registered.prev[k]]

\* under non-strict mode the call does not raise, and every key it was given
\* holds the new item, whether it existed or not; nothing else has changed
NonStrictOverwrites ==
    (registered.name # "none" /\ ~StrictMode) =>
        /\ registered.raised = "None"
        /\ registry.dict = PrevWith(KeysBefore(Len(registered.keys) + 1))

\* C37: any registration call on a registry (single-key registration or
\* register_multi) that raises ValueError because a key already exists under
\* strict mode leaves the registry's contents exactly as they were before the
\* call; under non-strict mode the existing key is overwritten with the new
\* item
C37_FailedRegistrationLeavesRegistry ==
    /\ registered.raised = "ValueError" => registry.dict = registered.prev
    /\ NonStrictOverwrites

\* C37, amended: a single-key registration that raises ValueError because a
\* key already exists under strict mode leaves the registry's contents
\* exactly as they were before the call; a register_multi call that raises it
\* has registered the item under the keys that precede the key it raised
\* for, and leaves the rest of the contents as they were; under non-strict
\* mode the existing key is overwritten with the new item
C37_FailedRegistrationKeepsEarlierKeys ==
    /\ (registered.raised = "ValueError" /\ registered.name = "__call__") =>
          /\ StrictMode
          /\ registered.keys[1] \in DOMAIN registered.prev
          /\ registry.dict = registered.prev
    /\ (registered.raised = "ValueError" /\ registered.name = "register_multi") =>
          /\ StrictMode
          /\ \E i \in 1 .. Len(registered.keys) :
                /\ registered.keys[i] \in DOMAIN registered.prev \cup KeysBefore(i)
                /\ \A j \in 1 .. (i - 1) :
                      registered.keys[j] \notin DOMAIN registered.prev \cup KeysBefore(j)
                /\ registry.dict = PrevWith(KeysBefore(i))
    /\ NonStrictOverwrites

\* a register_multi call under strict mode has raised ValueError for its
\* second key, which was there before the call, after it had registered the
\* item under its first key
C37_Witness ==
    /\ registered.name = "register_multi"
    /\ registered.raised = "ValueError"
    /\ Len(registered.keys) = 2
    /\ registered.keys[2] \in DOMAIN registered.prev
    /\ registered.keys[1] \notin DOMAIN registered.prev
    /\ registered.keys[1] \in DOMAIN registry.dict

\* ---------------------------------------------------------------------------
\* C38
\* ---------------------------------------------------------------------------

\* C38: after a scoped attribute assignment or restore scope (assign__ /
\* restore__) exits, normally or by an exception, every named attribute that
\* existed on entry has its entry value again and every named attribute that
\* did not exist on entry does not exist on the object
C38_ScopeRestoresAttributes ==
    scope.state = "exited" =>
        \A attr \in scope.attrs :
            IF attr \in DOMAIN scope.entry
            THEN attr \in DOMAIN obj.dict /\ obj.dict[attr] = scope.entry[attr]
            ELSE attr \notin DOMAIN obj.dict

====
